---------------------------- MODULE Spec2Model ----------------------------
(***************************************************************************)
(* Model of the intel layer of beta-trader:                                *)
(*   - intel/circuit_breaker.py : class CircuitBreaker                     *)
(*   - intel/retry.py           : retry_with_backoff                       *)
(*   - intel/orchestrator.py    : IntelOrchestrator.gather_intel, with the *)
(*     cache, the search sources and the scraper it calls                  *)
(*   - intel/sources/exa.py     : ExaSource.search with its breaker        *)
(*   - intel/events.py          : EventBus                                 *)
(*   - backend/sse.py           : SSEEventEmitter.subscribe                *)
(*   - intel/sources/firecrawl.py : FirecrawlSource.batch_scrape           *)
(*   - council/manager.py       : CouncilManager.search_keyword and        *)
(*     search_semantic                                                     *)
(*   - routing/openrouter/models.py : ModelRotator                         *)
(*   - routing/openrouter/client.py : OpenRouterClient.complete            *)
(* Each part has its own specification (SpecBreaker, SpecRetry, SpecOrch,  *)
(* SpecSource, SpecBus, SpecSse, SpecBatch, SpecCouncil, SpecRotator,      *)
(* SpecClient); the variables of the other parts stay at their idle        *)
(* values.  SpecBreakerLive, SpecRetryLive and SpecRotatorFair add the     *)
(* fairness conditions under which the liveness properties are stated.     *)
(*                                                                         *)
(* circuit_breaker.py defines _record_failure, _record_success and call    *)
(* twice inside the class body.  Python binds a class attribute to the     *)
(* last definition, so the methods in force are the ones at lines 225-278; *)
(* the earlier definitions (lines 154-217) are dead and are not modelled.  *)
(* _transition_to (lines 108-152) is defined once.                         *)
(*                                                                         *)
(* Time is time.monotonic() in whole ticks.  A synchronous method reads    *)
(* the clock several times in a row without suspending; the model takes    *)
(* those reads to return the same tick.                                    *)
(***************************************************************************)
EXTENDS Integers, Sequences, FiniteSets

\* ---------------------------------------------------------------- bounds
MaxTime == 3           \* the clock stops advancing here
MaxThreshold == 2      \* failure_threshold ranges over 1..MaxThreshold
MaxTimeout == 2        \* timeout_seconds ranges over 1..MaxTimeout
MaxProbes == 2         \* half_open_max_calls ranges over 1..MaxProbes
MaxWindow == 2         \* failure_window_seconds ranges over 1..MaxWindow
MaxRecorded == 3       \* failures recorded between two closings of the breaker
MaxHalfOpenCalls == 3  \* cap of the _half_open_calls counter
MaxAttempts == 3       \* max_attempts ranges over 1..MaxAttempts
MaxRateLimitAttempts == 3  \* rate_limit_max_attempts ranges over 1..MaxRateLimitAttempts
MaxRetryAfter == 3     \* retry_after_seconds ranges over 1..MaxRetryAfter, or is absent

MaxHits == 2           \* a search returns at most MaxHits hits

MaxSearches == 4       \* search() calls of one source
MaxSourceTime == 120   \* the clock of the source model stops here (seconds)
ClockStep == 30        \* and advances by this much

MaxHeartbeats == 1     \* heartbeats put into the queue of one session

\* retry.py defaults, in seconds
API_ERROR_BASE_DELAY == 1
API_ERROR_MAX_DELAY == 30
RATE_LIMIT_BASE_DELAY == 2
RATE_LIMIT_MAX_DELAY == 32

\* prices of the sources, in millionths of a dollar
EXA_COST_PER_RESULT == 500
TAVILY_COST_PER_SEARCH == 10000
COST_PER_PAGE == 1000
\* rate-limit window of a RateLimitError without retry_after_seconds, in seconds
RATE_LIMIT_FALLBACK == 60
\* capacity of the queue of a stream subscription (events.py)
SSE_QUEUE_MAXSIZE == 256
\* capacity of the queue of a streaming session (backend/sse.py)
SESSION_QUEUE_MAXSIZE == 100
MaxIndex == 8          \* get_next_model calls followed when the index is unbounded
MAX_CONCURRENT_SCRAPES == 5
MaxUrls == 3           \* URLs handed to one batch_scrape call
\* relevance_score given to scraped pages, in tenths
FIRECRAWL_RELEVANCE_SCORE == 8
\* default of max_urls in _extract_scrape_urls
MAX_SCRAPE_URLS == 5

Callers == {"c1", "c2"}  \* tasks that call CircuitBreaker.call concurrently

CLOSED == "CLOSED"
OPEN == "OPEN"
HALF_OPEN == "HALF_OPEN"
CircuitState == {CLOSED, OPEN, HALF_OPEN}

VARIABLES
    cfg,            \* CircuitBreaker.config (CircuitBreakerConfig)
    now,            \* time.monotonic()
    cb,             \* the CircuitBreaker object: state, failure_count,
                    \* failure_timestamps, opened_at, half_open_calls, and
                    \* emitted: the events scheduled on the bus by the last step
    pc,             \* per caller: "idle" or "awaiting_fn" (inside await fn())
    admitted_as,    \* history: state in which the in-flight call was admitted
    last,           \* history: the last operation, its outcome, the state before it
    recorded,       \* history: times of the failures recorded since the
                    \* breaker last became CLOSED (never pruned)
    probe_failed_at, \* history: time of the last failed HALF_OPEN probe, -1 if none
    probes_admitted  \* history: calls admitted since the breaker last became HALF_OPEN

breaker_vars == <<cfg, now, cb, pc, admitted_as, last, recorded,
                  probe_failed_at, probes_admitted>>

VARIABLES
    rcfg,           \* the arguments of one retry_with_backoff run
    rt,             \* its locals: rl_attempt, other_attempt, total_attempt,
                    \* the delay being slept (half seconds), retry_after: the
                    \* retry_after_seconds of last_exception (0 when it has
                    \* none), its position (pc) and, once it ended, the
                    \* exception it raised
    hist            \* history: the outcome of every fn() of the run, in order

retry_vars == <<rcfg, rt, hist>>

VARIABLES
    oq,             \* one gather_intel call and what it finds: the query's depth,
                    \* whether the orchestrator has a cache, and is_rate_limited
                    \* of the two search sources when the query is dispatched
    store,          \* the cache entry under the key of (text, depth), or NoEntry
    opc,            \* position of gather_intel
    search,         \* per search source: the state of its search() call, the
                    \* hits it returned or the exception it raised
    scrape,         \* batch_scrape: per URL handed over, the state of its scrape()
    result,         \* the IntelResult returned, or NoResult
    oraised,        \* the exception gather_intel raised, or "none"
    trace,          \* history: events emitted on the bus and cache writes, in order
    called          \* history: the source clients invoked by the call

orch_vars == <<oq, store, opc, search, scrape, result, oraised, trace, called>>

VARIABLES
    sv,             \* the remote search service: the HTTP status it answers every
                    \* request with and the Retry-After header of its 429
                    \* answers in seconds (0: no header)
    rate_limited_until, \* ExaSource._rate_limited_until
    http_requests,  \* history: number of client.post calls made
    ended,          \* history: number of search() calls that have ended
    sq,             \* per task calling ExaSource.search: its position, the
                    \* exception it raised, the number of searches ended when
                    \* it began, the requests made when it began and the time
                    \* it failed
    strace          \* history: the events search() has emitted, in order

source_vars == <<sv, rate_limited_until, http_requests, ended, sq, strace>>

VARIABLES
    handlers,       \* EventBus._handlers: per event type, the list of handlers
    sse_queues,     \* EventBus._sse_queues: the queues of the stream
                    \* subscriptions, each named after its consumer
    bq,             \* per consumer, the queue its sse_subscribe generator made:
                    \* old: envelopes of earlier emits still waiting in it;
                    \* items: envelopes of the emits modelled, oldest first
    em,             \* per task calling emit once: its position; the event
                    \* type; idx: the handlers its loop has taken from the list;
                    \* logged: the turns whose handler failure was logged; history: the handlers
                    \* invoked, those subscribed when it started, whether the
                    \* list changed meanwhile, the consumers offered the
                    \* envelope and those whose queue was full
    order,          \* history: the emits in the order they were invoked
    received        \* history: per consumer, the envelopes taken from its queue

bus_vars == <<handlers, sse_queues, bq, em, order, received>>

VARIABLES
    sess,           \* per session of SSEEventEmitter.subscribe: its position,
                    \* its forwarder and heartbeat tasks, its queue, the
                    \* heartbeats put so far, and what it has yielded
    emap            \* the keys of SSEEventEmitter._queues

sse_vars == <<sess, emap>>

VARIABLES
    sem,            \* FirecrawlSource._max_concurrent and the value of its
                    \* _semaphore
    bt              \* per batch_scrape call: its position, per URL the state of
                    \* its _scrape_with_semaphore task, and the list returned

batch_vars == <<sem, bt>>

VARIABLES
    council_client, \* CouncilManager._client is set
    cs              \* per search_keyword / search_semantic call: its kind, its
                    \* position and what it returned or raised

council_vars == <<council_client, cs>>

VARIABLES
    rot,            \* ModelRotator: current_index and the rate_limited set
    lastcall,       \* the last get_next_model call: its task type, the index
                    \* it read and the model id it returned
    run,            \* the ids returned by the latest consecutive calls with
                    \* one task type and an unchanged rate_limited set, as
                    \* many of them as there were candidates
    cl,             \* per OpenRouterClient.complete call: its position, task
                    \* type, attempt count, model, the HTTP status the service
                    \* has for a request on that model, and the exception
    ctrace          \* the events complete emitted, oldest first

router_vars == <<rot, lastcall, run, cl, ctrace>>

\* the parts modelled last
late_vars == <<batch_vars, council_vars, router_vars>>

early_vars ==
    <<breaker_vars, retry_vars, orch_vars, source_vars, bus_vars, sse_vars>>

other_than_batch == <<early_vars, council_vars, router_vars>>

other_than_council == <<early_vars, batch_vars, router_vars>>

other_than_router == <<early_vars, batch_vars, council_vars>>

\* the parts added to the three above
ext_vars == <<source_vars, bus_vars, sse_vars, late_vars>>

vars == <<breaker_vars, retry_vars, orch_vars, ext_vars>>

\* ------------------------------------------------- CircuitBreaker methods

\* CircuitBreaker.service_name of the breaker modelled
service_name == "exa"

\* lines 123-146 of _transition_to: the event handed to event_bus.emit.  The
\* payload names the service under the key source_name; emit is called
\* without correlation_id, so the envelope carries the default, "".
StateChangedEvent(b, new_state) ==
    [event_type |-> "circuit_breaker_state_changed",
     correlation_id |-> "",
     source_name |-> service_name,
     previous_state |-> b.state,
     state |-> new_state]

\* lines 136-149: the emit is scheduled with loop.create_task; without a
\* running loop get_running_loop raises RuntimeError, which is passed over,
\* and no event is scheduled
Scheduled(b, in_loop) == IF in_loop THEN b ELSE [b EXCEPT !.emitted = <<>>]

\* variant: the counters are not cleared on entering CLOSED
TransitionTo_NoClear(b, new_state) ==
    IF b.state = new_state
    THEN b
    ELSE [b EXCEPT !.state = new_state,
                   !.emitted = Append(@, StateChangedEvent(b, new_state))]

\* _transition_to(new_state): no-op when the state does not change; otherwise
\* sets the state, schedules one circuit_breaker_state_changed event, and
\* clears the counters only when the new state is CLOSED.
TransitionTo(b, new_state) ==
    IF b.state = new_state
    THEN b
    ELSE LET b1 == [b EXCEPT !.state = new_state,
                             !.emitted = Append(@, StateChangedEvent(b, new_state))]
         IN  IF new_state = CLOSED
             THEN [b1 EXCEPT !.failure_count = 0,
                             !.failure_timestamps = <<>>,
                             !.half_open_calls = 0]
             ELSE b1

\* variant: the timeout comparison is off by one tick
StateProperty_Early(b, t) ==
    IF b.state = OPEN /\ t - b.opened_at >= cfg.timeout_seconds - 1
    THEN TransitionTo(b, HALF_OPEN)
    ELSE b

\* the state property: reading it moves OPEN to HALF_OPEN once
\* now - opened_at >= timeout_seconds.  The value read is the .state of the result.
StateProperty(b, t) ==
    IF b.state = OPEN /\ t - b.opened_at >= cfg.timeout_seconds
    THEN TransitionTo(b, HALF_OPEN)
    ELSE b

\* variant: nothing is pruned
PruneOldFailures_KeepsAll(b, t) ==
    [b EXCEPT !.failure_count = Len(b.failure_timestamps)]

\* _prune_old_failures
PruneOldFailures(b, t) ==
    LET cutoff == t - cfg.failure_window_seconds
        kept == SelectSeq(b.failure_timestamps, LAMBDA x : x >= cutoff)
    IN  [b EXCEPT !.failure_timestamps = kept, !.failure_count = Len(kept)]

\* variant: a failed probe re-opens without setting opened_at
RecordFailure_KeepsOpenedAt(b, t) ==
    LET b1 == PruneOldFailures(
                  [b EXCEPT !.failure_timestamps = Append(@, t)], t)
    IN  IF b1.state = HALF_OPEN
        THEN TransitionTo(b1, OPEN)
        ELSE IF b1.failure_count >= cfg.failure_threshold
        THEN TransitionTo([b1 EXCEPT !.opened_at = t], OPEN)
        ELSE b1

\* _record_failure (the definition in force, lines 225-237)
RecordFailure(b, t) ==
    LET b1 == PruneOldFailures(
                  [b EXCEPT !.failure_timestamps = Append(@, t)], t)
    IN  IF b1.state = HALF_OPEN
        THEN TransitionTo([b1 EXCEPT !.opened_at = t], OPEN)
        ELSE IF b1.failure_count >= cfg.failure_threshold
        THEN TransitionTo([b1 EXCEPT !.opened_at = t], OPEN)
        ELSE b1

\* _record_success (the definition in force, lines 239-245)
RecordSuccess(b, t) ==
    IF b.state = HALF_OPEN
    THEN TransitionTo(b, CLOSED)
    ELSE IF b.state = CLOSED
    THEN PruneOldFailures(b, t)
    ELSE b

\* the admission part of call (lines 252-270), after current_state was read:
\* the breaker after the HALF_OPEN counter update
Admission(b) ==
    IF b.state = HALF_OPEN
    THEN [b EXCEPT !.half_open_calls = @ + 1]
    ELSE b

\* variant: the OPEN check is missing
Rejected_OnlyHalfOpen(b) ==
    b.state = HALF_OPEN /\ b.half_open_calls > cfg.half_open_max_calls

\* variant: the HALF_OPEN probe limit is missing
Rejected_NoProbeLimit(b) ==
    b.state = OPEN

\* whether call raises CircuitOpenError instead of awaiting fn
Rejected(b) ==
    \/ b.state = OPEN
    \/ b.state = HALF_OPEN /\ b.half_open_calls > cfg.half_open_max_calls

\* ------------------------------------------------------------ history
Fresh(b) == [b EXCEPT !.emitted = <<>>]

\* number of failures in a sequence of times that are at most the window old at t
RecentFailures(times, t) ==
    Cardinality({i \in DOMAIN times : t - times[i] <= cfg.failure_window_seconds})

\* history of recorded failures: restarted whenever the breaker becomes CLOSED
RecordedAfter(b2, rec) == IF cb.state # CLOSED /\ b2.state = CLOSED THEN <<>> ELSE rec

\* calls admitted in the current HALF_OPEN episode
ProbesAfter(b2, n) == IF cb.state # HALF_OPEN /\ b2.state = HALF_OPEN THEN 0 ELSE n

\* no retry_with_backoff run is modelled beside the breaker
RetryIdle ==
    /\ rcfg = [max_attempts |-> 1, rate_limit_max_attempts |-> 1, jitter |-> FALSE]
    /\ rt = [pc |-> "none", rl_attempt |-> 0, other_attempt |-> 0,
             total_attempt |-> 0, delay |-> 0, retry_after |-> 0,
             raised |-> "none"]
    /\ hist = <<>>

NoEntry == [query_id |-> "none", sources |-> <<>>, total_cost_usd |-> 0, depth_used |-> "none",
            cached |-> FALSE]
NoResult == NoEntry

\* no gather_intel call is modelled beside the breaker or the retry run
OrchIdle ==
    /\ oq = [depth |-> "none", has_cache |-> FALSE,
             exa_rate_limited |-> FALSE, tavily_rate_limited |-> FALSE]
    /\ store = NoEntry
    /\ opc = "none"
    /\ search = [s \in {"exa", "tavily"} |->
                    [st |-> "idle", hits |-> <<>>, error |-> "none"]]
    /\ scrape = <<>>
    /\ result = NoResult
    /\ oraised = "none"
    /\ trace = <<>>
    /\ called = {}

Searchers == {"t1", "t2"}  \* tasks that call ExaSource.search

NoSearch == [pc |-> "idle", exc |-> "none", began_after |-> 0,
             requests_before |-> 0, failed_at |-> -1]

\* no source client is modelled
SourceIdle ==
    /\ sv = [status |-> 0, retry_after |-> 0]
    /\ rate_limited_until = 0
    /\ http_requests = 0
    /\ ended = 0
    /\ sq = [k \in Searchers |-> NoSearch]
    /\ strace = <<>>

EventTypes == {"x", "y"}
\* the handlers that subscribe to each type, each at most once at a time
HandlersFor == [t \in EventTypes |-> IF t = "x" THEN {"h1", "h2"} ELSE {"h3"}]
Emitters == {"e1", "e2"}      \* tasks that call emit, once each
\* the event_type each of them emits
EventTypeOf == [e \in Emitters |-> IF e = "e1" THEN "x" ELSE "y"]
Consumers == {"s1", "s2"}     \* stream subscriptions, named after their session

NoEmit == [pc |-> "idle", type |-> "none", idx |-> 0, logged |-> {},
           invoked |-> <<>>, at_start |-> <<>>, changed |-> FALSE,
           offered |-> {}, dropped |-> {}]

EmptyQueue == [old |-> 0, items |-> <<>>]

\* a bus nobody has subscribed to and nothing is emitted on
BusIdle ==
    /\ handlers = [t \in EventTypes |-> <<>>]
    /\ sse_queues = <<>>
    /\ bq = [k \in Consumers |-> EmptyQueue]
    /\ em = [e \in Emitters |-> NoEmit]
    /\ order = <<>>
    /\ received = [k \in Consumers |-> <<>>]

NoSession == [pc |-> "none", fwd |-> "none", hb |-> "none", queue |-> EmptyQueue,
              beats |-> 0, out |-> <<>>, how |-> "none"]

\* an SSEEventEmitter without sessions
SseIdle ==
    /\ sess = [s \in Consumers |-> NoSession]
    /\ emap = {}

\* none of the added parts is modelled
Batches == {"b1", "b2"}    \* overlapping batch_scrape calls of one source

NoBatch == [pc |-> "none", tasks |-> <<>>, results |-> <<>>]

\* no batch_scrape is modelled
BatchIdle ==
    /\ sem = [max_concurrent |-> 0, value |-> 0]
    /\ bt = [b \in Batches |-> NoBatch]

CouncilCalls == {"k1", "k2"}   \* overlapping searches of one CouncilManager

NoCouncilCall == [kind |-> "none", pc |-> "none", result |-> <<>>,
                  exc |-> "none"]

\* no council search is modelled
CouncilIdle ==
    /\ council_client = FALSE
    /\ cs = [c \in CouncilCalls |-> NoCouncilCall]

Completers == {"p1", "p2", "p3"}   \* complete() calls of one client

NoCall == [task_type |-> "none", index |-> -1, model |-> "none"]

NoRun == [limited |-> {}, returned |-> <<>>]

NoComplete == [pc |-> "none", task_type |-> "none", attempt |-> 0,
               model |-> "none", status |-> 0, exc |-> "none"]

\* no rotator and no completion client is modelled
RouterIdle ==
    /\ rot = [current_index |-> 0, rate_limited |-> {}]
    /\ lastcall = NoCall
    /\ run = NoRun
    /\ cl = [p \in Completers |-> NoComplete]
    /\ ctrace = <<>>

LateIdle == BatchIdle /\ CouncilIdle /\ RouterIdle

ExtIdle == SourceIdle /\ BusIdle /\ SseIdle /\ LateIdle

\* ----------------------------------------------------------------- init
InitBreaker ==
    /\ cfg \in [failure_threshold : 1..MaxThreshold,
                timeout_seconds : 1..MaxTimeout,
                half_open_max_calls : 1..MaxProbes,
                failure_window_seconds : 1..MaxWindow]
    /\ now = 0
    /\ cb = [state |-> CLOSED, failure_count |-> 0, failure_timestamps |-> <<>>,
             opened_at |-> 0, half_open_calls |-> 0, emitted |-> <<>>]
    /\ pc = [c \in Callers |-> "idle"]
    /\ admitted_as = [c \in Callers |-> "none"]
    /\ last = [op |-> "init", outcome |-> "none", prev |-> CLOSED]
    /\ recorded = <<>>
    /\ probe_failed_at = -1
    /\ probes_admitted = 0
    /\ RetryIdle
    /\ OrchIdle
    /\ ExtIdle

\* -------------------------------------------------------------- actions

\* the clock advances
Tick ==
    /\ now < MaxTime
    /\ now' = now + 1
    /\ cb' = Fresh(cb)
    /\ last' = [op |-> "tick", outcome |-> "none", prev |-> cb.state]
    /\ UNCHANGED <<cfg, pc, admitted_as, recorded, probe_failed_at, probes_admitted, retry_vars, orch_vars, ext_vars>>

\* somebody reads cb.state (or is_closed), inside a task of the event loop
\* or from synchronous code
ReadState ==
    \E in_loop \in BOOLEAN :
    LET b2 == Scheduled(StateProperty(Fresh(cb), now), in_loop)
    IN  /\ cb' = b2
        /\ last' = [op |-> "read_state", outcome |-> b2.state,
                    prev |-> cb.state]
        /\ recorded' = RecordedAfter(b2, recorded)
        /\ probes_admitted' = ProbesAfter(b2, probes_admitted)
        /\ UNCHANGED <<cfg, now, pc, admitted_as, probe_failed_at, retry_vars, orch_vars, ext_vars>>

\* call(fn) up to its await fn(): rejected with CircuitOpenError, or admitted
CallBegin(c) ==
    /\ pc[c] = "idle"
    /\ LET b1 == StateProperty(Fresh(cb), now)
           b2 == Admission(b1)
           rejected == Rejected(b2)
       IN  /\ b2.half_open_calls <= MaxHalfOpenCalls
           /\ cb' = b2
           /\ pc' = [pc EXCEPT ![c] = IF rejected THEN "idle" ELSE "awaiting_fn"]
           /\ admitted_as' = [admitted_as EXCEPT ![c] =
                                 IF rejected THEN "none"
                                 ELSE IF b1.state = HALF_OPEN THEN "probe" ELSE "closed"]
           /\ last' = [op |-> "call", outcome |-> IF rejected THEN "CircuitOpenError" ELSE "admitted",
                       prev |-> cb.state]
           /\ recorded' = RecordedAfter(b2, recorded)
           /\ probes_admitted' =
                 ProbesAfter(b2, probes_admitted)
                    + (IF ~rejected /\ b1.state = HALF_OPEN THEN 1 ELSE 0)
    /\ UNCHANGED <<cfg, now, probe_failed_at, retry_vars, orch_vars, ext_vars>>

\* fn() returned: _record_success, call returns the result
CallSucceeds(c) ==
    /\ pc[c] = "awaiting_fn"
    /\ LET b2 == RecordSuccess(Fresh(cb), now)
       IN  /\ cb' = b2
           /\ recorded' = RecordedAfter(b2, recorded)
           /\ probes_admitted' = ProbesAfter(b2, probes_admitted)
    /\ pc' = [pc EXCEPT ![c] = "idle"]
    /\ admitted_as' = [admitted_as EXCEPT ![c] = "none"]
    /\ last' = [op |-> "call_succeeded", outcome |-> admitted_as[c],
                prev |-> cb.state]
    /\ UNCHANGED <<cfg, now, probe_failed_at, retry_vars, orch_vars, ext_vars>>

\* fn() raised an Exception: _record_failure, call re-raises
CallFails(c) ==
    /\ pc[c] = "awaiting_fn"
    /\ Len(recorded) < MaxRecorded
    /\ LET b2 == RecordFailure(Fresh(cb), now)
       IN  /\ cb' = b2
           /\ recorded' = RecordedAfter(b2, Append(recorded, now))
           /\ probes_admitted' = ProbesAfter(b2, probes_admitted)
    /\ pc' = [pc EXCEPT ![c] = "idle"]
    /\ admitted_as' = [admitted_as EXCEPT ![c] = "none"]
    /\ last' = [op |-> "call_failed", outcome |-> admitted_as[c],
                prev |-> cb.state]
    /\ probe_failed_at' = IF admitted_as[c] = "probe" /\ cb.state = HALF_OPEN
                          THEN now ELSE probe_failed_at
    /\ UNCHANGED <<cfg, now, retry_vars, orch_vars, ext_vars>>

\* the awaiting task is cancelled: CancelledError is a BaseException, so the
\* except Exception clause of call does not run and nothing is recorded
CallCancelled(c) ==
    /\ pc[c] = "awaiting_fn"
    /\ cb' = Fresh(cb)
    /\ pc' = [pc EXCEPT ![c] = "idle"]
    /\ admitted_as' = [admitted_as EXCEPT ![c] = "none"]
    /\ last' = [op |-> "call_cancelled", outcome |-> admitted_as[c],
                prev |-> cb.state]
    /\ UNCHANGED <<cfg, now, recorded, probe_failed_at, probes_admitted, retry_vars, orch_vars, ext_vars>>

\* reset(), inside a task of the event loop or from synchronous code
Reset ==
    \E in_loop \in BOOLEAN :
    LET b2 == Scheduled(TransitionTo(Fresh(cb), CLOSED), in_loop)
    IN  /\ cb' = b2
        /\ last' = [op |-> "reset", outcome |-> "none",
                    prev |-> cb.state]
        /\ recorded' = RecordedAfter(b2, recorded)
        /\ probes_admitted' = ProbesAfter(b2, probes_admitted)
        /\ UNCHANGED <<cfg, now, pc, admitted_as, probe_failed_at, retry_vars, orch_vars, ext_vars>>

NextBreaker ==
    \/ Tick
    \/ ReadState
    \/ \E c \in Callers : CallBegin(c)
    \/ \E c \in Callers : CallSucceeds(c)
    \/ \E c \in Callers : CallFails(c)
    \/ \E c \in Callers : CallCancelled(c)
    \/ Reset

SpecBreaker == InitBreaker /\ [][NextBreaker]_vars

\* the breaker with time passing, calls coming in and the calls admitted
\* coming back: the clock advances while it can, every caller that is idle
\* calls again, and fn returns unless it raises or is cancelled
SpecBreakerLive ==
    /\ InitBreaker
    /\ [][NextBreaker]_vars
    /\ WF_vars(Tick)
    /\ \A c \in Callers : WF_vars(CallBegin(c))
    /\ \A c \in Callers : WF_vars(CallSucceeds(c))

\* ---------------------------------------------------- retry_with_backoff

Min(a, b) == IF a <= b THEN a ELSE b
Max(a, b) == IF a >= b THEN a ELSE b

RECURSIVE Pow2(_)
Pow2(n) == IF n <= 0 THEN 1 ELSE 2 * Pow2(n - 1)

\* variant: one counter shared by both classes of failure
CountFailure_Shared(r, is_rate_limit) ==
    [r EXCEPT !.rl_attempt = @ + 1, !.other_attempt = @ + 1]

\* lines 89-98: the failure is charged to the counter of its class
CountFailure(r, is_rate_limit) ==
    IF is_rate_limit
    THEN [r EXCEPT !.rl_attempt = @ + 1]
    ELSE [r EXCEPT !.other_attempt = @ + 1]

\* variant: one more attempt than the budget
Exhausted_Late(r, is_rate_limit) ==
    IF is_rate_limit
    THEN r.rl_attempt > rcfg.rate_limit_max_attempts
    ELSE r.other_attempt > rcfg.max_attempts

\* line 100: attempt_idx >= effective_max, after the failure was counted
Exhausted(r, is_rate_limit) ==
    IF is_rate_limit
    THEN r.rl_attempt >= rcfg.rate_limit_max_attempts
    ELSE r.other_attempt >= rcfg.max_attempts

\* lines 110-120: the delay before jitter, in seconds; retry_after = 0 stands for an
\* error without retry_after_seconds (None and 0 are both falsy)
BackoffDelay(r, is_rate_limit, retry_after) ==
    IF is_rate_limit
    THEN LET d == Min(RATE_LIMIT_BASE_DELAY * Pow2(r.rl_attempt - 1),
                      RATE_LIMIT_MAX_DELAY)
         IN  IF retry_after # 0 THEN Max(d, retry_after) ELSE d
    ELSE Min(API_ERROR_BASE_DELAY * Pow2(r.other_attempt - 1), API_ERROR_MAX_DELAY)

\* lines 122-123: uniform(delay * 0.5, delay * 1.5) when jitter is on.  The
\* result is the delay slept, counted in half seconds so that both ends of
\* the jitter interval are whole: d seconds are 2 * d half seconds.
SleepChoices(d) ==
    IF rcfg.jitter THEN d..(3 * d) ELSE {2 * d}

\* number of outcomes of one kind in the history
RECURSIVE Count(_, _)
Count(h, kind) ==
    IF h = <<>> THEN 0
    ELSE (IF Head(h) = kind THEN 1 ELSE 0) + Count(Tail(h), kind)

\* no breaker is modelled beside a retry run
BreakerIdle ==
    /\ cfg = [failure_threshold |-> 1, timeout_seconds |-> 1,
              half_open_max_calls |-> 1, failure_window_seconds |-> 1]
    /\ now = 0
    /\ cb = [state |-> CLOSED, failure_count |-> 0, failure_timestamps |-> <<>>,
             opened_at |-> 0, half_open_calls |-> 0, emitted |-> <<>>]
    /\ pc = [c \in Callers |-> "idle"]
    /\ admitted_as = [c \in Callers |-> "none"]
    /\ last = [op |-> "init", outcome |-> "none", prev |-> CLOSED]
    /\ recorded = <<>>
    /\ probe_failed_at = -1
    /\ probes_admitted = 0

\* the run has entered the loop and awaits fn() for the first time
InitRetry ==
    /\ rcfg \in [max_attempts : 1..MaxAttempts,
                 rate_limit_max_attempts : 1..MaxRateLimitAttempts,
                 jitter : BOOLEAN]
    /\ rt = [pc |-> "awaiting_fn", rl_attempt |-> 0, other_attempt |-> 0,
             total_attempt |-> 1, delay |-> 0, retry_after |-> 0,
             raised |-> "none"]
    /\ hist = <<>>
    /\ BreakerIdle
    /\ OrchIdle
    /\ ExtIdle

\* fn() returns: the run returns its result
FnReturns ==
    /\ rt.pc = "awaiting_fn"
    /\ rt' = [rt EXCEPT !.pc = "returned"]
    /\ hist' = Append(hist, "ok")
    /\ UNCHANGED <<rcfg, breaker_vars, orch_vars, ext_vars>>

\* fn() raises one of retryable_exceptions: re-raised when the budget of its
\* class is used up, otherwise the run computes the delay and sleeps
FnRaisesRetryable(kind, retry_after) ==
    /\ rt.pc = "awaiting_fn"
    /\ LET is_rate_limit == (kind = "RateLimitError")
           r1 == [CountFailure(rt, is_rate_limit) EXCEPT !.retry_after = retry_after]
       IN  IF Exhausted(r1, is_rate_limit)
           THEN rt' = [r1 EXCEPT !.pc = "raised", !.raised = kind]
           ELSE \E s \in SleepChoices(BackoffDelay(r1, is_rate_limit, retry_after)) :
                    rt' = [r1 EXCEPT !.pc = "sleeping", !.delay = s]
    /\ hist' = Append(hist, kind)
    /\ UNCHANGED <<rcfg, breaker_vars, orch_vars, ext_vars>>

\* fn() raises an exception outside retryable_exceptions: it propagates
FnRaisesOther ==
    /\ rt.pc = "awaiting_fn"
    /\ rt' = [rt EXCEPT !.pc = "raised", !.raised = "Other"]
    /\ hist' = Append(hist, "Other")
    /\ UNCHANGED <<rcfg, breaker_vars, orch_vars, ext_vars>>

\* asyncio.sleep(delay) is over: next iteration, fn() is awaited again
SleepOver ==
    /\ rt.pc = "sleeping"
    /\ rt' = [rt EXCEPT !.pc = "awaiting_fn", !.total_attempt = @ + 1, !.delay = 0]
    /\ UNCHANGED <<rcfg, hist, breaker_vars, orch_vars, ext_vars>>

NextRetry ==
    \/ FnReturns
    \/ \E ra \in 0..MaxRetryAfter :
           FnRaisesRetryable("RateLimitError", ra)
    \/ FnRaisesRetryable("APIError", 0)
    \/ FnRaisesOther
    \/ SleepOver

SpecRetry == InitRetry /\ [][NextRetry]_vars

\* the run with an fn that terminates (it returns or raises) and sleeps that
\* end
SpecRetryLive == InitRetry /\ [][NextRetry]_vars /\ WF_vars(NextRetry)


\* ------------------------------------------------------ IntelOrchestrator
\* One gather_intel call (intel/orchestrator.py) with its collaborators: the
\* cache (intel/cache.py), the two search sources and the scraper
\* (intel/sources/*.py), and the events the call puts on the bus.  A source's
\* breaker and retry loop are not unfolded here: a search or a scrape returns
\* or raises, whichever the layers below decide.  Titles, snippets,
\* merged_text, latencies and timestamps are carried along by the code without
\* influencing sources, costs, events or control flow; they are left out.

SHALLOW == "SHALLOW"
STANDARD == "STANDARD"
DEEP == "DEEP"
IntelDepth == {SHALLOW, STANDARD, DEEP}

NoUrl == "none"                        \* url is None: falsy in `if source.url`
Urls == {"ok.io/a", "x.com/b"}
SocialUrls == {"x.com/b"}              \* URLs containing one of skip_patterns
Scores == {7, 9}                       \* relevance_score in tenths, within [0, 1]
\* the hits a search may return: one page under both scores, a social-media
\* page and a hit without URL
SearchResult ==
    {r \in [url : Urls \cup {NoUrl}, relevance_score : Scores] :
        \/ r.url = "ok.io/a"
        \/ r.url = "x.com/b" /\ r.relevance_score = 7
        \/ r.url = NoUrl /\ r.relevance_score = 9}
ResultLists == UNION {[1..n -> SearchResult] : n \in 0..MaxHits}
Errors == {"CircuitOpenError", "RateLimitError", "APIError"}
Sources == {"exa", "tavily"}

\* costs are kept as whole multiples of 1/CostScale millionths of a dollar, so
\* that TAVILY_COST_PER_SEARCH / len(results) is exact for up to 6 results
CostScale == 3 * 4 * 5

\* _convert_search_results
ConvertSearchResults(results, source_name) ==
    LET per_result_cost ==
            IF source_name = "exa"
            THEN EXA_COST_PER_RESULT * CostScale
            ELSE (TAVILY_COST_PER_SEARCH * CostScale) \div Max(Len(results), 1)
    IN  [i \in 1..Len(results) |->
            [source_name |-> source_name, url |-> results[i].url,
             relevance_score |-> results[i].relevance_score,
             cost_usd |-> per_result_cost]]

\* the loop of _deduplicate_sources over the URL-bearing sources: seen is
\* seen_urls.values(), one source per URL in the order the URLs were first
\* seen; a later source replaces the one kept only with a greater score
RECURSIVE SeenUrls(_, _)
SeenUrls(sources, seen) ==
    IF sources = <<>> THEN seen
    ELSE LET source == Head(sources)
             at == {i \in 1..Len(seen) : seen[i].url = source.url}
         IN  SeenUrls(Tail(sources),
                 IF source.url = NoUrl THEN seen
                 ELSE IF at = {} THEN Append(seen, source)
                 ELSE LET i == CHOOSE j \in at : TRUE
                      IN  IF source.relevance_score > seen[i].relevance_score
                          THEN [seen EXCEPT ![i] = source]
                          ELSE seen)

\* list.sort(key=relevance_score, reverse=True): descending and stable
RECURSIVE SortByScore(_)
SortByScore(sources) ==
    IF sources = <<>> THEN <<>>
    ELSE LET h == Head(sources)
             rest == SortByScore(Tail(sources))
             k == Cardinality({i \in 1..Len(rest) :
                                  rest[i].relevance_score > h.relevance_score})
         IN  SubSeq(rest, 1, k) \o <<h>> \o SubSeq(rest, k + 1, Len(rest))

\* _deduplicate_sources
DeduplicateSources(sources) ==
    LET IsNoUrl(s) == s.url = NoUrl
    IN  SortByScore(SeenUrls(sources, <<>>) \o SelectSeq(sources, IsNoUrl))

\* _extract_scrape_urls, urls being the list built so far
RECURSIVE ExtractScrapeUrls(_, _)
ExtractScrapeUrls(results, urls) ==
    IF results = <<>> THEN urls
    ELSE LET r == Head(results)
         IN  ExtractScrapeUrls(Tail(results),
                 IF r.url # NoUrl /\ Len(urls) < MAX_SCRAPE_URLS
                       /\ r.url \notin SocialUrls
                 THEN Append(urls, r.url) ELSE urls)

\* _gather_deep, lines 340-354: one firecrawl source per page scraped, in the
\* order of the URLs handed to batch_scrape
ScrapedSources(sc) ==
    LET Returned(t) == t.st = "returned"
        scraped == SelectSeq(sc, Returned)
    IN  [i \in 1..Len(scraped) |->
            [source_name |-> "firecrawl", url |-> scraped[i].url,
             relevance_score |-> FIRECRAWL_RELEVANCE_SCORE,
             cost_usd |-> COST_PER_PAGE * CostScale]]

\* the IntelResult built by _gather_shallow
GatherShallow(exa_results) ==
    [query_id |-> "q1",
     sources |-> ConvertSearchResults(exa_results, "exa"),
     total_cost_usd |-> Len(exa_results) * EXA_COST_PER_RESULT * CostScale,
     depth_used |-> SHALLOW, cached |-> FALSE]

\* the IntelResult built by _gather_standard, lines 296-314
GatherStandard(exa_results, tavily_results) ==
    [query_id |-> "q1",
     sources |-> DeduplicateSources(
                     ConvertSearchResults(exa_results, "exa")
                     \o ConvertSearchResults(tavily_results, "tavily")),
     total_cost_usd |-> Len(exa_results) * EXA_COST_PER_RESULT * CostScale
                        + (IF tavily_results # <<>>
                           THEN TAVILY_COST_PER_SEARCH * CostScale ELSE 0),
     depth_used |-> STANDARD, cached |-> FALSE]

\* the IntelResult built by _gather_deep, lines 326-365
GatherDeep(exa_results, sc) ==
    [query_id |-> "q1",
     sources |-> DeduplicateSources(
                     ConvertSearchResults(exa_results, "exa") \o ScrapedSources(sc)),
     total_cost_usd |-> Len(exa_results) * EXA_COST_PER_RESULT * CostScale
                        + Len(ScrapedSources(sc)) * COST_PER_PAGE * CostScale,
     depth_used |-> DEEP, cached |-> FALSE]

\* IntelQuery.correlation_id of the query of the gather_intel call modelled;
\* every emit of the orchestrator and of the source clients is given it
correlation_id == "trace-q1"

\* an entry of the trace: an event put on the bus with the fields of its
\* payload that are modelled ("absent" or -1: not in the payload)
Event(event_type, query_id, source, status, cached, cost) ==
    [kind |-> "emit", event_type |-> event_type, query_id |-> query_id,
     source |-> source, status |-> status, cached |-> cached, cost |-> cost,
     correlation_id |-> correlation_id]

\* an entry of the trace: RedisCache.get ("cache_get") or RedisCache.set
\* ("cache_set") was awaited, and how it ended
CacheOp(kind, status) ==
    [kind |-> kind, event_type |-> "none", query_id |-> "q1",
     source |-> "cache", status |-> status, cached |-> "absent", cost |-> -1,
     correlation_id |-> "absent"]

BoolStr(b) == IF b THEN "True" ELSE "False"

\* _emit_intel_gathered
IntelGathered(r) ==
    Event("IntelGathered", r.query_id, "orchestrator", "absent",
          BoolStr(r.cached), r.total_cost_usd)

\* the entry a former identical query left in the cache (cache.set stores the
\* result before anything marks it cached)
StoredEntry(depth) ==
    [query_id |-> "q0",
     sources |-> ConvertSearchResults(<<[url |-> "ok.io/a", relevance_score |-> 9]>>, "exa"),
     total_cost_usd |-> EXA_COST_PER_RESULT * CostScale,
     depth_used |-> depth, cached |-> FALSE]

InitOrch ==
    /\ oq \in [depth : IntelDepth, has_cache : BOOLEAN,
               exa_rate_limited : BOOLEAN, tavily_rate_limited : BOOLEAN]
    /\ store \in {NoEntry, StoredEntry(oq.depth)}
    /\ (~oq.has_cache => store = NoEntry)
    /\ opc = "start"
    /\ search = [s \in Sources |-> [st |-> "idle", hits |-> <<>>, error |-> "none"]]
    /\ scrape = <<>>
    /\ result = NoResult
    /\ oraised = "none"
    /\ trace = <<>>
    /\ called = {}
    /\ BreakerIdle
    /\ RetryIdle
    /\ ExtIdle

\* gather_intel up to its first await: query_started is emitted
QueryStarted ==
    /\ opc = "start"
    /\ trace' = Append(trace, Event("query_started", "q1", "orchestrator",
                                    "absent", "absent", -1))
    /\ opc' = IF oq.has_cache THEN "cache_get" ELSE "dispatch"
    /\ UNCHANGED <<oq, store, search, scrape, result, oraised, called,
                   breaker_vars, retry_vars, ext_vars>>

\* variant: the entry read from the cache is handed on unmarked
MarkCached_Unmarked(entry) == entry

\* cache.py line 86 and orchestrator.py line 118: cached = True
MarkCached(entry) == [entry EXCEPT !.cached = TRUE]

\* lines 114-143: cache.get returns the entry; it is marked cached, both
\* events are emitted and the entry is returned
CacheHit ==
    /\ opc = "cache_get"
    /\ store # NoEntry
    /\ LET cached == MarkCached(store)
       IN  /\ result' = cached
           /\ trace' = trace \o
                 << CacheOp("cache_get", "hit"),
                    IntelGathered(cached),
                    Event("query_completed", "q1", "orchestrator", "success",
                          "True", 0) >>
    /\ opc' = "returned"
    /\ UNCHANGED <<oq, store, search, scrape, oraised, called,
                   breaker_vars, retry_vars, ext_vars>>

\* cache.get returns None: there is no entry under the key, or there is one
\* and reading or decoding it failed (cache.py lines 88-90)
CacheMiss ==
    /\ opc = "cache_get"
    /\ trace' = Append(trace, CacheOp("cache_get",
                                      IF store = NoEntry THEN "miss" ELSE "failed"))
    /\ opc' = "dispatch"
    /\ UNCHANGED <<oq, store, search, scrape, result, oraised, called,
                   breaker_vars, retry_vars, ext_vars>>

\* variant: STANDARD starts both searches whatever is_rate_limited says
Dispatched_IgnoresRateLimit(q) ==
    IF q.depth = STANDARD THEN Sources ELSE {"exa"}

\* the searches a depth starts: SHALLOW and DEEP the neural search (lines 208,
\* 319), STANDARD the sources that are not rate-limited (lines 229-267)
Dispatched(q) ==
    IF q.depth = STANDARD
    THEN {s \in Sources : ~(IF s = "exa" THEN q.exa_rate_limited
                                         ELSE q.tavily_rate_limited)}
    ELSE {"exa"}

\* lines 146-152 and the head of _gather_*: the searches of the depth are
\* started
Dispatch ==
    /\ opc = "dispatch"
    /\ search' = [s \in Sources |->
                     IF s \in Dispatched(oq) THEN [search[s] EXCEPT !.st = "scheduled"]
                     ELSE search[s]]
    /\ opc' = "awaiting_search"
    /\ UNCHANGED <<oq, store, scrape, result, oraised, trace, called,
                   breaker_vars, retry_vars, ext_vars>>

\* search() of a source starts: source_querying is emitted
SearchBegins(s) ==
    /\ search[s].st = "scheduled"
    /\ search' = [search EXCEPT ![s].st = "running"]
    /\ called' = called \cup {s}
    /\ trace' = Append(trace, Event("source_querying", "q1", s, "started",
                                    "absent", -1))
    /\ UNCHANGED <<oq, store, opc, scrape, result, oraised,
                   breaker_vars, retry_vars, ext_vars>>

\* search() returns its hits: SourceQueried completed
SearchReturns(s, hits) ==
    /\ search[s].st = "running"
    /\ search' = [search EXCEPT ![s].st = "returned", ![s].hits = hits]
    /\ trace' = Append(trace, Event("SourceQueried", "absent", s, "completed",
                                    "absent", -1))
    /\ UNCHANGED <<oq, store, opc, scrape, result, oraised, called,
                   breaker_vars, retry_vars, ext_vars>>

\* search() raises: SourceQueried failed, the exception leaves search()
SearchRaises(s, e) ==
    /\ search[s].st = "running"
    /\ search' = [search EXCEPT ![s].st = "raised", ![s].error = e]
    /\ trace' = Append(trace, Event("SourceQueried", "absent", s, "failed",
                                    "absent", -1))
    /\ UNCHANGED <<oq, store, opc, scrape, result, oraised, called,
                   breaker_vars, retry_vars, ext_vars>>

\* nothing of the call's searches is still to run
SearchesDone == \A s \in Sources : search[s].st \in {"idle", "returned", "raised"}

\* lines 273-294: the list a source contributes, empty when it was left out
\* or when gather handed back its exception
ResultsOf(s) == IF search[s].st = "returned" THEN search[s].hits ELSE <<>>

\* variant: gather without return_exceptions hands on the first exception
GatherError_Propagates(sr) ==
    IF sr["exa"].st = "raised" THEN sr["exa"].error
    ELSE IF sr["tavily"].st = "raised" THEN sr["tavily"].error
    ELSE "none"

\* line 271: asyncio.gather(*tasks, return_exceptions=True) raises nothing,
\* exceptions of the tasks come back as results
GatherError(sr) == "none"

\* variant: the exception is replaced by a generic one
Reraised_Wrapped(e) == "IntelError"

\* line 203: a bare raise hands on the exception that was caught
Reraised(e) == e

\* the except clause of gather_intel, lines 191-203
Fails(e) ==
    /\ trace' = Append(trace, Event("error_occurred", "q1", "orchestrator",
                                    "absent", "absent", -1))
    /\ oraised' = Reraised(e)
    /\ opc' = "raised"
    /\ UNCHANGED result

\* SHALLOW: exa.search returned, _gather_shallow builds the result
GatherShallowReturns ==
    /\ opc = "awaiting_search" /\ oq.depth = SHALLOW
    /\ search["exa"].st = "returned"
    /\ result' = GatherShallow(search["exa"].hits)
    /\ opc' = "finalize"
    /\ UNCHANGED <<oq, store, search, scrape, oraised, trace, called,
                   breaker_vars, retry_vars, ext_vars>>

\* STANDARD: gather is over once every task started has ended
GatherStandardReturns ==
    /\ opc = "awaiting_search" /\ oq.depth = STANDARD
    /\ SearchesDone
    /\ IF GatherError(search) = "none"
       THEN /\ result' = GatherStandard(ResultsOf("exa"), ResultsOf("tavily"))
            /\ opc' = "finalize"
            /\ UNCHANGED <<oraised, trace>>
       ELSE Fails(GatherError(search))
    /\ UNCHANGED <<oq, store, search, scrape, called, breaker_vars, retry_vars, ext_vars>>

\* DEEP: exa.search returned URLs worth scraping, batch_scrape starts one
\* scrape per URL (at most MAX_SCRAPE_URLS, all within the semaphore)
BatchScrapeBegins ==
    /\ opc = "awaiting_search" /\ oq.depth = DEEP
    /\ search["exa"].st = "returned"
    /\ LET urls == ExtractScrapeUrls(search["exa"].hits, <<>>)
       IN  /\ urls # <<>>
           /\ scrape' = [i \in 1..Len(urls) |->
                            [url |-> urls[i], st |-> "scheduled", error |-> "none"]]
    /\ opc' = "awaiting_scrape"
    /\ UNCHANGED <<oq, store, search, result, oraised, trace, called,
                   breaker_vars, retry_vars, ext_vars>>

\* scrape() of one URL starts: source_querying is emitted
ScrapeBegins(i) ==
    /\ i \in 1..Len(scrape) /\ scrape[i].st = "scheduled"
    /\ scrape' = [scrape EXCEPT ![i].st = "running"]
    /\ called' = called \cup {"firecrawl"}
    /\ trace' = Append(trace, Event("source_querying", "q1", "firecrawl",
                                    "started", "absent", -1))
    /\ UNCHANGED <<oq, store, opc, search, result, oraised,
                   breaker_vars, retry_vars, ext_vars>>

\* scrape() returns the page: SourceQueried completed
ScrapeReturns(i) ==
    /\ i \in 1..Len(scrape) /\ scrape[i].st = "running"
    /\ scrape' = [scrape EXCEPT ![i].st = "returned"]
    /\ trace' = Append(trace, Event("SourceQueried", "absent", "firecrawl",
                                    "completed", "absent", -1))
    /\ UNCHANGED <<oq, store, opc, search, result, oraised, called,
                   breaker_vars, retry_vars, ext_vars>>

\* scrape() raises: SourceQueried failed; _scrape_with_semaphore logs the
\* exception and returns None (firecrawl.py lines 268-279)
ScrapeRaises(i, e) ==
    /\ i \in 1..Len(scrape) /\ scrape[i].st = "running"
    /\ scrape' = [scrape EXCEPT ![i].st = "raised", ![i].error = e]
    /\ trace' = Append(trace, Event("SourceQueried", "absent", "firecrawl",
                                    "failed", "absent", -1))
    /\ UNCHANGED <<oq, store, opc, search, result, oraised, called,
                   breaker_vars, retry_vars, ext_vars>>

\* DEEP: nothing to scrape, or batch_scrape is over; _gather_deep builds the
\* result
GatherDeepReturns ==
    /\ oq.depth = DEEP
    /\ search["exa"].st = "returned"
    /\ \/ /\ opc = "awaiting_search"
          /\ ExtractScrapeUrls(search["exa"].hits, <<>>) = <<>>
       \/ /\ opc = "awaiting_scrape"
          /\ \A i \in 1..Len(scrape) : scrape[i].st \in {"returned", "raised"}
    /\ result' = GatherDeep(search["exa"].hits, scrape)
    /\ opc' = "finalize"
    /\ UNCHANGED <<oq, store, search, scrape, oraised, trace, called,
                   breaker_vars, retry_vars, ext_vars>>

\* SHALLOW and DEEP await exa.search unguarded: its exception leaves
\* _gather_shallow or _gather_deep and reaches the except clause
SearchErrorEscapes ==
    /\ opc = "awaiting_search" /\ oq.depth \in {SHALLOW, DEEP}
    /\ search["exa"].st = "raised"
    /\ Fails(search["exa"].error)
    /\ UNCHANGED <<oq, store, search, scrape, called, breaker_vars, retry_vars, ext_vars>>

\* variant: the cache is written after the events were emitted
FinishEntries_WriteLast(r, has_cache, write_ok) ==
    << IntelGathered(r),
       Event("query_completed", "q1", "orchestrator", "success",
             "absent", r.total_cost_usd) >>
    \o (IF has_cache
        THEN << CacheOp("cache_set", IF write_ok THEN "stored" ELSE "failed") >>
        ELSE << >>)

\* lines 159-178: what the end of a query that missed the cache does, in order
FinishEntries(r, has_cache, write_ok) ==
    (IF has_cache
     THEN << CacheOp("cache_set", IF write_ok THEN "stored" ELSE "failed") >>
     ELSE << >>)
    \o << IntelGathered(r),
          Event("query_completed", "q1", "orchestrator", "success",
                "absent", r.total_cost_usd) >>

\* lines 154-189: the result is written to the cache when there is one
\* (cache.set swallows a failed write), IntelGathered and query_completed
\* are emitted and the result is returned
Finish(write_ok) ==
    /\ opc = "finalize"
    /\ (~oq.has_cache => write_ok)
    /\ store' = IF oq.has_cache /\ write_ok THEN result ELSE store
    /\ trace' = trace \o FinishEntries(result, oq.has_cache, write_ok)
    /\ opc' = "returned"
    /\ UNCHANGED <<oq, search, scrape, result, oraised, called,
                   breaker_vars, retry_vars, ext_vars>>

NextOrch ==
    \/ QueryStarted
    \/ CacheHit
    \/ CacheMiss
    \/ Dispatch
    \/ \E s \in Sources : SearchBegins(s)
    \/ \E s \in Sources, hits \in ResultLists : SearchReturns(s, hits)
    \/ \E s \in Sources, e \in Errors : SearchRaises(s, e)
    \/ GatherShallowReturns
    \/ GatherStandardReturns
    \/ BatchScrapeBegins
    \/ \E i \in 1..MaxHits : ScrapeBegins(i)
    \/ \E i \in 1..MaxHits : ScrapeReturns(i)
    \/ \E i \in 1..MaxHits, e \in Errors : ScrapeRaises(i, e)
    \/ GatherDeepReturns
    \/ SearchErrorEscapes
    \/ \E write_ok \in BOOLEAN : Finish(write_ok)

SpecOrch == InitOrch /\ [][NextOrch]_vars

\* -------------------------------------------------------------- ExaSource
\* ExaSource.search (sources/exa.py) with the breaker the source owns.  Time
\* is in seconds here.  TavilySource.search and FirecrawlSource.scrape are
\* written the same way.

\* circuit_breaker.py, lines 52-57: the configuration of the sources' breakers
INTEL_API_CONFIG ==
    [failure_threshold |-> 3, timeout_seconds |-> 60,
     half_open_max_calls |-> 1, failure_window_seconds |-> 60]

\* the Retry-After header of a 429 answer, in seconds; 0: no header
RetryAfterHeaders == {0, 5, 90}

\* the parameters of CircuitBreaker.call besides self (the definition in
\* force, line 247), the first of them positional
CallParameters == <<"fn">>

\* exa.py, lines 120-123: search passes one positional argument and query_id
CallPositional == 1
CallKeywords == {"query_id"}

\* Python binds the arguments before running any of the body of call; an
\* argument that has no parameter makes the call expression raise TypeError
CallBinds ==
    /\ CallPositional <= Len(CallParameters)
    /\ CallKeywords \subseteq {CallParameters[i] : i \in 1..Len(CallParameters)}

\* exa.py, line 78: is_rate_limited
IsRateLimited(t) == t < rate_limited_until

\* exa.py, lines 148-150: only a RateLimitError moves _rate_limited_until; the
\* window is retry_after_seconds when that is truthy (neither None nor 0),
\* else RATE_LIMIT_FALLBACK
RateLimitedUntil(exc, retry_after, t) ==
    IF exc = "RateLimitError"
    THEN t + (IF retry_after # 0 THEN retry_after ELSE RATE_LIMIT_FALLBACK)
    ELSE rate_limited_until

\* a source with its breaker CLOSED and no search made yet, in front of a
\* service that answers every request alike
InitSource ==
    /\ sv \in [status : {200, 429, 500}, retry_after : RetryAfterHeaders]
    /\ (sv.status # 429 => sv.retry_after = 0)
    /\ rate_limited_until = 0
    /\ http_requests = 0
    /\ ended = 0
    /\ sq = [k \in Searchers |-> NoSearch]
    /\ strace = <<>>
    /\ cfg = INTEL_API_CONFIG
    /\ now = 0
    /\ cb = [state |-> CLOSED, failure_count |-> 0, failure_timestamps |-> <<>>,
             opened_at |-> 0, half_open_calls |-> 0, emitted |-> <<>>]
    /\ pc = [c \in Callers |-> "idle"]
    /\ admitted_as = [c \in Callers |-> "none"]
    /\ last = [op |-> "init", outcome |-> "none", prev |-> CLOSED]
    /\ recorded = <<>>
    /\ probe_failed_at = -1
    /\ probes_admitted = 0
    /\ RetryIdle
    /\ OrchIdle
    /\ BusIdle
    /\ SseIdle
    /\ LateIdle

\* the clock advances
SourceTick ==
    /\ now + ClockStep <= MaxSourceTime
    /\ now' = now + ClockStep
    /\ UNCHANGED <<cfg, cb, pc, admitted_as, last, recorded, probe_failed_at,
                   probes_admitted, retry_vars, orch_vars, source_vars,
                   bus_vars, sse_vars, late_vars>>

\* search() up to the call of the breaker: source_querying is emitted
SourceSearchBegins(k) ==
    /\ sq[k].pc \in {"idle", "raised"}
    /\ ended + Cardinality({j \in Searchers : sq[j].pc = "calling"}) < MaxSearches
    /\ sq' = [sq EXCEPT ![k] = [pc |-> "calling", exc |-> "none",
                                began_after |-> ended,
                                requests_before |-> http_requests,
                                failed_at |-> -1]]
    /\ strace' = Append(strace, Event("source_querying", "q1", "exa", "started",
                                      "absent", -1))
    /\ UNCHANGED <<sv, rate_limited_until, http_requests, ended,
                   breaker_vars, retry_vars, orch_vars, bus_vars, sse_vars, late_vars>>

\* lines 120-164: the call expression self._circuit_breaker.call(lambda,
\* query_id=query_id) raises TypeError before the breaker runs anything, so
\* neither the breaker nor the HTTP client is reached; the except clause
\* leaves _rate_limited_until alone (TypeError is no RateLimitError), emits
\* SourceQueried with status failed and re-raises
SourceCallRaises(k) ==
    /\ sq[k].pc = "calling"
    /\ ~CallBinds
    /\ rate_limited_until' = RateLimitedUntil("TypeError", 0, now)
    /\ sq' = [sq EXCEPT ![k].pc = "raised", ![k].exc = "TypeError",
                        ![k].failed_at = now]
    /\ ended' = ended + 1
    /\ strace' = Append(strace, Event("SourceQueried", "absent", "exa", "failed",
                                      "absent", -1))
    /\ UNCHANGED <<sv, http_requests, breaker_vars, retry_vars, orch_vars,
                   bus_vars, sse_vars, late_vars>>

NextSource ==
    \/ SourceTick
    \/ \E k \in Searchers : SourceSearchBegins(k)
    \/ \E k \in Searchers : SourceCallRaises(k)

SpecSource == InitSource /\ [][NextSource]_vars

\* --------------------------------------------------------------- EventBus
\* EventBus (intel/events.py).  The lock of the bus is only ever held between
\* two suspension points, so that taking it never suspends the taker: the
\* code under the lock runs within the step that reaches it.

Range(list) == {list[i] : i \in 1..Len(list)}

\* list.remove(h): the first occurrence goes
RECURSIVE Remove(_, _)
Remove(list, h) ==
    IF list = <<>> THEN <<>>
    ELSE IF Head(list) = h THEN Tail(list)
    ELSE <<Head(list)>> \o Remove(Tail(list), h)

QSize(q) == q.old + Len(q.items)

\* asyncio.Queue.full() of a queue made with maxsize
QueueFull(q, maxsize) == QSize(q) >= maxsize

\* variant: a queue without capacity
PutNowait_Unbounded(q, maxsize, item) ==
    [q EXCEPT !.items = Append(@, item)]

\* queue.put_nowait(item) inside try / except QueueFull: a full queue is left
\* as it is and the item is dropped
PutNowait(q, maxsize, item) ==
    IF QueueFull(q, maxsize) THEN q ELSE [q EXCEPT !.items = Append(@, item)]

\* emit, lines 129-134: the envelope is offered to every queue of
\* _sse_queues in turn
RECURSIVE PushToQueues(_, _, _)
PushToQueues(ids, b, env) ==
    IF ids = <<>> THEN b
    ELSE PushToQueues(Tail(ids),
                      [b EXCEPT ![Head(ids)] = PutNowait(@, SSE_QUEUE_MAXSIZE, env)],
                      env)

\* variant: the failure of a handler leaves emit
CatchHandlerError_Propagates(r) == [r EXCEPT !.pc = "raised"]

\* emit, lines 119-126: except Exception around the await of one handler; the
\* failure is logged and the loop goes on
CatchHandlerError(r) == [r EXCEPT !.logged = @ \cup {r.idx}]

\* emit, lines 116-117: `for handler in handlers` walks the list object of
\* _handlers itself, not a copy: each turn takes the element at the
\* iterator's index of the list as it is then, and the loop ends when the
\* index has reached the length the list has then
NextHandler(r, list) ==
    IF r.idx < Len(list)
    THEN [r EXCEPT !.pc = "awaiting_handler", !.idx = @ + 1,
                   !.invoked = Append(@, list[r.idx + 1])]
    ELSE [r EXCEPT !.pc = "delivering"]

\* emit from one turn of the handler loop on: the next handler is awaited,
\* or, the loop being over, the envelope is pushed to the queues and returned
EmitGoesOn(e, r) ==
    LET r2 == NextHandler(r, handlers[r.type])
    IN  IF r2.pc = "awaiting_handler"
        THEN /\ em' = [em EXCEPT ![e] = r2]
             /\ UNCHANGED bq
        ELSE /\ bq' = PushToQueues(sse_queues, bq, e)
             /\ em' = [em EXCEPT ![e] =
                          [r2 EXCEPT !.pc = "returned",
                                     !.offered = Range(sse_queues),
                                     !.dropped = {k \in Range(sse_queues) :
                                                    QueueFull(bq[k], SSE_QUEUE_MAXSIZE)}]]

\* the emits awaiting a handler of type t see the list of t change
ListChanged(t) ==
    [e \in Emitters |->
        IF em[e].pc = "awaiting_handler" /\ em[e].type = t
        THEN [em[e] EXCEPT !.changed = TRUE] ELSE em[e]]

\* the backlog a stream subscription starts the model with
Backlogs == {0, SSE_QUEUE_MAXSIZE - 1}

\* a bus with two stream subscriptions whose generators wait in queue.get();
\* the consumer of the first may have fallen behind
InitBus ==
    /\ handlers = [t \in EventTypes |-> <<>>]
    /\ sse_queues = <<"s1", "s2">>
    /\ bq \in {[k \in Consumers |->
                   IF k = "s1" THEN [old |-> n, items |-> <<>>] ELSE EmptyQueue] :
               n \in Backlogs}
    /\ em = [e \in Emitters |-> NoEmit]
    /\ order = <<>>
    /\ received = [k \in Consumers |-> <<>>]
    /\ BreakerIdle
    /\ RetryIdle
    /\ OrchIdle
    /\ SourceIdle
    /\ SseIdle
    /\ LateIdle

\* subscribe(event_type, handler), by a handler or by any other task
Subscribe(t, h) ==
    /\ h \notin Range(handlers[t])
    /\ handlers' = [handlers EXCEPT ![t] = Append(@, h)]
    /\ em' = ListChanged(t)
    /\ UNCHANGED <<sse_queues, bq, order, received,
                   breaker_vars, retry_vars, orch_vars, source_vars, sse_vars, late_vars>>

\* unsubscribe(event_type, handler)
Unsubscribe(t, h) ==
    /\ h \in Range(handlers[t])
    /\ handlers' = [handlers EXCEPT ![t] = Remove(@, h)]
    /\ em' = ListChanged(t)
    /\ UNCHANGED <<sse_queues, bq, order, received,
                   breaker_vars, retry_vars, orch_vars, source_vars, sse_vars, late_vars>>

\* emit(event_type, ...) up to its first suspension: the envelope is built
\* and the first handler awaited; with no handler emit runs to its end
EmitBegins(e) ==
    /\ em[e].pc = "idle"
    /\ order' = Append(order, e)
    /\ EmitGoesOn(e, [em[e] EXCEPT !.type = EventTypeOf[e],
                                   !.at_start = handlers[EventTypeOf[e]]])
    /\ UNCHANGED <<handlers, sse_queues, received,
                   breaker_vars, retry_vars, orch_vars, source_vars, sse_vars, late_vars>>

\* the handler awaited returns
HandlerReturns(e) ==
    /\ em[e].pc = "awaiting_handler"
    /\ EmitGoesOn(e, em[e])
    /\ UNCHANGED <<handlers, sse_queues, order, received,
                   breaker_vars, retry_vars, orch_vars, source_vars, sse_vars, late_vars>>

\* the handler awaited raises an Exception
HandlerRaises(e) ==
    /\ em[e].pc = "awaiting_handler"
    /\ LET r == CatchHandlerError(em[e])
       IN  IF r.pc = "raised"
           THEN em' = [em EXCEPT ![e] = r] /\ UNCHANGED bq
           ELSE EmitGoesOn(e, r)
    /\ UNCHANGED <<handlers, sse_queues, order, received,
                   breaker_vars, retry_vars, orch_vars, source_vars, sse_vars, late_vars>>

\* the task awaiting the handler is cancelled: CancelledError is no
\* Exception and leaves emit
EmitCancelled(e) ==
    /\ em[e].pc = "awaiting_handler"
    /\ em' = [em EXCEPT ![e].pc = "cancelled"]
    /\ UNCHANGED <<handlers, sse_queues, bq, order, received,
                   breaker_vars, retry_vars, orch_vars, source_vars, sse_vars, late_vars>>

\* sse_subscribe, lines 144-146: the consumer's generator takes the next
\* envelope from its queue and yields it (a consumer that has fallen behind
\* stays stalled)
ConsumerGets(k) ==
    /\ QSize(bq[k]) > 0
    /\ bq[k].old = 0
    /\ bq' = [bq EXCEPT ![k].items = Tail(@)]
    /\ received' = [received EXCEPT ![k] = Append(@, Head(bq[k].items))]
    /\ UNCHANGED <<handlers, sse_queues, em, order,
                   breaker_vars, retry_vars, orch_vars, source_vars, sse_vars, late_vars>>

NextBus ==
    \/ \E t \in EventTypes : \E h \in HandlersFor[t] : Subscribe(t, h)
    \/ \E t \in EventTypes : \E h \in HandlersFor[t] : Unsubscribe(t, h)
    \/ \E e \in Emitters : EmitBegins(e)
    \/ \E e \in Emitters : HandlerReturns(e)
    \/ \E e \in Emitters : HandlerRaises(e)
    \/ \E e \in Emitters : EmitCancelled(e)
    \/ \E k \in Consumers : ConsumerGets(k)

SpecBus == InitBus /\ [][NextBus]_vars

\* -------------------------------------------------------- SSEEventEmitter
\* SSEEventEmitter.subscribe (backend/sse.py) on top of the bus.  No handler
\* is subscribed here, so that an emit runs to its end in one step.  The
\* envelopes emitted carry no session_id in their payload: none is filtered
\* out by a session.

\* the ways a session leaves the try block of subscribe: CancelledError
\* (caught and logged), GeneratorExit thrown in by aclose(), or an exception
\* raised while an item is formatted
ExitPaths == {"cancelled", "closed", "exception"}

\* variant: the teardown leaves the queues of the bus alone
UnsubscribeAll_Keeps(qs) == qs

\* sse_unsubscribe_all: _sse_queues.clear()
UnsubscribeAll(qs) == <<>>

\* an emitter without sessions on a bus without stream subscriptions
InitSse ==
    /\ sess = [s \in Consumers |-> NoSession]
    /\ emap = {}
    /\ handlers = [t \in EventTypes |-> <<>>]
    /\ sse_queues = <<>>
    /\ bq = [k \in Consumers |-> EmptyQueue]
    /\ em = [e \in Emitters |-> NoEmit]
    /\ order = <<>>
    /\ received = [k \in Consumers |-> <<>>]
    /\ BreakerIdle
    /\ RetryIdle
    /\ OrchIdle
    /\ SourceIdle
    /\ LateIdle

\* subscribe(session_id) up to its first yield, lines 27-43: the session
\* queue is made and entered in _queues, the stream generator of the bus is
\* made (it does not run yet), the two tasks are created, and the connected
\* message is yielded
SessionSubscribes(s) ==
    /\ sess[s].pc = "none"
    /\ sess' = [sess EXCEPT ![s] = [NoSession EXCEPT !.pc = "streaming",
                                                     !.fwd = "created",
                                                     !.hb = "sleeping",
                                                     !.out = <<"connected">>]]
    /\ emap' = emap \cup {s}
    /\ UNCHANGED <<bus_vars, breaker_vars, retry_vars, orch_vars, source_vars, late_vars>>

\* _forward_events runs for the first time: `async for` starts the generator
\* of sse_subscribe, which makes its queue, appends it to _sse_queues and
\* waits in queue.get()
ForwarderStarts(s) ==
    /\ sess[s].fwd = "created"
    /\ sess' = [sess EXCEPT ![s].fwd = "waiting"]
    /\ sse_queues' = Append(sse_queues, s)
    /\ bq' = [bq EXCEPT ![s] = EmptyQueue]
    /\ UNCHANGED <<handlers, em, order, received, emap,
                   breaker_vars, retry_vars, orch_vars, source_vars, late_vars>>

\* _forward_events, lines 84-88: an envelope taken from the queue of the bus
\* is put into the session queue, or dropped when that is full
ForwarderForwards(s) ==
    /\ sess[s].fwd = "waiting"
    /\ bq[s].items # <<>>
    /\ bq' = [bq EXCEPT ![s].items = Tail(@)]
    /\ received' = [received EXCEPT ![s] = Append(@, Head(bq[s].items))]
    /\ sess' = [sess EXCEPT ![s].queue =
                    PutNowait(@, SESSION_QUEUE_MAXSIZE, Head(bq[s].items))]
    /\ UNCHANGED <<handlers, sse_queues, em, order, emap,
                   breaker_vars, retry_vars, orch_vars, source_vars, late_vars>>

\* _heartbeat_loop: the sleep is over, HEARTBEAT is put into the session queue
HeartbeatFires(s) ==
    /\ sess[s].hb = "sleeping"
    /\ sess[s].beats < MaxHeartbeats
    /\ sess' = [sess EXCEPT ![s].queue = PutNowait(@, SESSION_QUEUE_MAXSIZE, "HEARTBEAT"),
                            ![s].beats = @ + 1]
    /\ UNCHANGED <<bus_vars, emap, breaker_vars, retry_vars, orch_vars, source_vars, late_vars>>

\* subscribe, lines 45-65: the next item of the session queue is yielded
SessionYields(s) ==
    /\ sess[s].pc = "streaming"
    /\ sess[s].queue.items # <<>>
    /\ sess' = [sess EXCEPT ![s].queue.items = Tail(@),
                            ![s].out = Append(@, Head(sess[s].queue.items))]
    /\ UNCHANGED <<bus_vars, emap, breaker_vars, retry_vars, orch_vars, source_vars, late_vars>>

\* the session leaves the try block; the finally clause, lines 69-79: both
\* tasks get cancel() (a forwarder that never ran never will; one that waits
\* in queue.get() is woken with CancelledError later), sse_unsubscribe_all
\* is awaited, and the entry of the session is deleted from _queues
SessionEnds(s, how) ==
    /\ sess[s].pc = "streaming"
    /\ sess' = [sess EXCEPT ![s].pc = "ended",
                            ![s].how = how,
                            ![s].fwd = IF @ = "created" THEN "cancelled"
                                       ELSE IF @ = "waiting" THEN "cancelling"
                                       ELSE @,
                            ![s].hb = "cancelled"]
    /\ sse_queues' = UnsubscribeAll(sse_queues)
    /\ emap' = emap \ {s}
    /\ UNCHANGED <<handlers, bq, em, order, received,
                   breaker_vars, retry_vars, orch_vars, source_vars, late_vars>>

\* the forwarder is woken with CancelledError inside the generator of
\* sse_subscribe, whose finally clause runs _sse_queues.remove(queue): with
\* the queue still listed it is removed and the task ends cancelled; with
\* the queue gone remove raises ValueError, which replaces the
\* CancelledError and is passed over by _forward_events (except Exception)
ForwarderCancelled(s) ==
    /\ sess[s].fwd = "cancelling"
    /\ IF s \in Range(sse_queues)
       THEN /\ sse_queues' = Remove(sse_queues, s)
            /\ sess' = [sess EXCEPT ![s].fwd = "cancelled"]
       ELSE /\ sess' = [sess EXCEPT ![s].fwd = "finished"]
            /\ UNCHANGED sse_queues
    /\ UNCHANGED <<handlers, bq, em, order, received, emap,
                   breaker_vars, retry_vars, orch_vars, source_vars, late_vars>>

NextSse ==
    \/ \E s \in Consumers : SessionSubscribes(s)
    \/ \E s \in Consumers : ForwarderStarts(s)
    \/ \E s \in Consumers : ForwarderForwards(s)
    \/ \E s \in Consumers : HeartbeatFires(s)
    \/ \E s \in Consumers : SessionYields(s)
    \/ \E s \in Consumers, how \in ExitPaths : SessionEnds(s, how)
    \/ \E s \in Consumers : ForwarderCancelled(s)
    \/ \E e \in Emitters : EmitBegins(e)

SpecSse == InitSse /\ [][NextSse]_vars

\* ------------------------------------------- FirecrawlSource.batch_scrape

UrlPool == <<"u1", "u2", "u3", "u4">>

\* the lists handed to batch_scrape, the empty one included
UrlLists == {SubSeq(UrlPool, 1, n) : n \in 0..MaxUrls}

\* the values max_concurrent is constructed with, the default included
Limits == {1, 2, MAX_CONCURRENT_SCRAPES}

\* the ScrapedContent scrape returns for a URL
Page(url) == [url |-> url, markdown |-> "md"]

\* asyncio.Semaphore.locked(): no permit is left
SemLocked_Never(s) == FALSE

SemLocked(s) == s.value = 0

\* the scrapes started by _scrape_with_semaphore and not yet finished
InFlight ==
    Cardinality({p \in Batches \X (1..Len(UrlPool)) :
                   /\ p[2] <= Len(bt[p[1]].tasks)
                   /\ bt[p[1]].tasks[p[2]].st = "scraping"})

\* `except Exception` of _scrape_with_semaphore: the failure is logged and the
\* task returns None
CatchScrapeError_Propagates(t) == [t EXCEPT !.st = "raised"]

CatchScrapeError(t) == [t EXCEPT !.st = "none_returned"]

\* results = [r for r in raw_results if r is not None]
RECURSIVE NotNone(_)
NotNone(tasks) ==
    IF tasks = <<>> THEN <<>>
    ELSE LET rest == NotNone(Tail(tasks))
         IN  IF Head(tasks).st = "returned"
             THEN <<Page(Head(tasks).url)>> \o rest
             ELSE rest

InitBatch ==
    /\ \E m \in Limits : sem = [max_concurrent |-> m, value |-> m]
    /\ bt = [b \in Batches |-> NoBatch]
    /\ BreakerIdle
    /\ RetryIdle
    /\ OrchIdle
    /\ SourceIdle
    /\ BusIdle
    /\ SseIdle
    /\ CouncilIdle
    /\ RouterIdle

\* batch_scrape(urls) up to asyncio.gather: an empty list returns [] at once,
\* otherwise one _scrape_with_semaphore task is made per URL
BatchScrape(b, urls) ==
    /\ bt[b].pc = "none"
    /\ bt' = [bt EXCEPT ![b] =
                IF urls = <<>>
                THEN [pc |-> "returned", tasks |-> <<>>, results |-> <<>>]
                ELSE [pc |-> "gathering",
                      tasks |-> [i \in 1..Len(urls) |->
                                    [url |-> urls[i], st |-> "created"]],
                      results |-> <<>>]]
    /\ UNCHANGED <<sem, other_than_batch>>

\* `async with self._semaphore` lets the task in and it calls scrape
SemaphoreAcquired(b, i) ==
    /\ bt[b].pc = "gathering"
    /\ i \in 1..Len(bt[b].tasks)
    /\ bt[b].tasks[i].st = "created"
    /\ ~SemLocked(sem)
    /\ sem' = [sem EXCEPT !.value = @ - 1]
    /\ bt' = [bt EXCEPT ![b].tasks[i].st = "scraping"]
    /\ UNCHANGED other_than_batch

\* scrape returns its page; leaving the `async with` releases the permit
BatchScrapeReturns(b, i) ==
    /\ bt[b].pc = "gathering"
    /\ i \in 1..Len(bt[b].tasks)
    /\ bt[b].tasks[i].st = "scraping"
    /\ sem' = [sem EXCEPT !.value = @ + 1]
    /\ bt' = [bt EXCEPT ![b].tasks[i].st = "returned"]
    /\ UNCHANGED other_than_batch

\* scrape raises an Exception; it is caught inside the `async with`, which
\* releases the permit
BatchScrapeRaises(b, i) ==
    /\ bt[b].pc = "gathering"
    /\ i \in 1..Len(bt[b].tasks)
    /\ bt[b].tasks[i].st = "scraping"
    /\ sem' = [sem EXCEPT !.value = @ + 1]
    /\ bt' = [bt EXCEPT ![b].tasks[i] = CatchScrapeError(@)]
    /\ UNCHANGED other_than_batch

\* asyncio.gather is over: it re-raises the exception of a task that raised,
\* otherwise batch_scrape returns the pages that are not None
BatchGathered(b) ==
    /\ bt[b].pc = "gathering"
    /\ \A i \in 1..Len(bt[b].tasks) :
          bt[b].tasks[i].st \in {"returned", "none_returned", "raised"}
    /\ bt' = [bt EXCEPT ![b] =
                IF \E i \in 1..Len(bt[b].tasks) : bt[b].tasks[i].st = "raised"
                THEN [bt[b] EXCEPT !.pc = "raised"]
                ELSE [bt[b] EXCEPT !.pc = "returned",
                                   !.results = NotNone(bt[b].tasks)]]
    /\ UNCHANGED <<sem, other_than_batch>>

NextBatch ==
    \/ \E b \in Batches, urls \in UrlLists : BatchScrape(b, urls)
    \/ \E b \in Batches, i \in 1..Len(UrlPool) : SemaphoreAcquired(b, i)
    \/ \E b \in Batches, i \in 1..Len(UrlPool) : BatchScrapeReturns(b, i)
    \/ \E b \in Batches, i \in 1..Len(UrlPool) : BatchScrapeRaises(b, i)
    \/ \E b \in Batches : BatchGathered(b)

SpecBatch == InitBatch /\ [][NextBatch]_vars

\* ------------------------------------------------ CouncilManager searches

SearchKinds == {"keyword", "semantic"}

\* what JinaEmbedder.embed raises
EmbedErrors == {"APIError", "RateLimitError", "CircuitOpenError", "ValueError"}

\* what the Redis client raises from ft().search and ft().create_index
RedisErrors == {"ResponseError", "ConnectionError"}

\* the documents a search finds
DocLists == {<<>>, <<"d1">>, <<"d2", "d1">>}

\* `except ResponseError` around ft(INDEX_NAME).search
CaughtBySearch_Any(e) == TRUE

CaughtBySearch(e) == e = "ResponseError"

\* the position after `if not self._client: await self.connect()`
AfterConnect(kind) == IF kind = "semantic" THEN "embedding" ELSE "searching"

InitCouncil ==
    /\ council_client = FALSE
    /\ cs = [c \in CouncilCalls |-> NoCouncilCall]
    /\ BreakerIdle
    /\ RetryIdle
    /\ OrchIdle
    /\ SourceIdle
    /\ BusIdle
    /\ SseIdle
    /\ BatchIdle
    /\ RouterIdle

\* search_keyword / search_semantic is called: without a client, connect()
\* sets one and awaits _ensure_indexes
CouncilSearchBegins(c, kind) ==
    /\ cs[c].pc = "none"
    /\ council_client' = TRUE
    /\ cs' = [cs EXCEPT ![c].kind = kind,
                        ![c].pc = IF council_client THEN AfterConnect(kind)
                                  ELSE "connecting"]
    /\ UNCHANGED other_than_council

\* _ensure_indexes returns (index created or already there)
ConnectReturns(c) ==
    /\ cs[c].pc = "connecting"
    /\ cs' = [cs EXCEPT ![c].pc = AfterConnect(cs[c].kind)]
    /\ UNCHANGED <<council_client, other_than_council>>

\* create_index fails otherwise: connect() lets it through, and so does the
\* search
ConnectRaises(c, e) ==
    /\ cs[c].pc = "connecting"
    /\ cs' = [cs EXCEPT ![c].pc = "raised", ![c].exc = e]
    /\ UNCHANGED <<council_client, other_than_council>>

\* search_semantic: the embedder returns the query vector
EmbedReturns(c) ==
    /\ cs[c].pc = "embedding"
    /\ cs' = [cs EXCEPT ![c].pc = "searching"]
    /\ UNCHANGED <<council_client, other_than_council>>

\* search_semantic: the embedder raises, outside any try
EmbedRaises(c, e) ==
    /\ cs[c].pc = "embedding"
    /\ cs' = [cs EXCEPT ![c].pc = "raised", ![c].exc = e]
    /\ UNCHANGED <<council_client, other_than_council>>

\* ft(INDEX_NAME).search returns documents, converted to records in order
FtSearchReturns(c, docs) ==
    /\ cs[c].pc = "searching"
    /\ cs' = [cs EXCEPT ![c].pc = "returned", ![c].result = docs]
    /\ UNCHANGED <<council_client, other_than_council>>

\* ft(INDEX_NAME).search raises: a ResponseError is logged and [] returned
FtSearchRaises(c, e) ==
    /\ cs[c].pc = "searching"
    /\ cs' = [cs EXCEPT ![c] =
                IF CaughtBySearch(e)
                THEN [@ EXCEPT !.pc = "returned", !.result = <<>>, !.exc = e]
                ELSE [@ EXCEPT !.pc = "raised", !.exc = e]]
    /\ UNCHANGED <<council_client, other_than_council>>

NextCouncil ==
    \/ \E c \in CouncilCalls, kind \in SearchKinds : CouncilSearchBegins(c, kind)
    \/ \E c \in CouncilCalls : ConnectReturns(c)
    \/ \E c \in CouncilCalls, e \in RedisErrors : ConnectRaises(c, e)
    \/ \E c \in CouncilCalls : EmbedReturns(c)
    \/ \E c \in CouncilCalls, e \in EmbedErrors : EmbedRaises(c, e)
    \/ \E c \in CouncilCalls, docs \in DocLists : FtSearchReturns(c, docs)
    \/ \E c \in CouncilCalls, e \in RedisErrors : FtSearchRaises(c, e)

SpecCouncil == InitCouncil /\ [][NextCouncil]_vars

\* ----------------------------------------------------------- ModelRotator

\* OPENROUTER_FREE_MODELS, id and strength of each entry
Models ==
    << [id |-> "deepseek/deepseek-r1-0528:free", strength |-> "reasoning"],
       [id |-> "nvidia/nemotron-3-nano-30b-a3b:free", strength |-> "agentic"],
       [id |-> "openai/gpt-oss-120b:free", strength |-> "reasoning"],
       [id |-> "meta-llama/llama-3.3-70b-instruct:free", strength |-> "general"],
       [id |-> "qwen/qwen3-coder-480b-a35b:free", strength |-> "coding"],
       [id |-> "nous/hermes-3-405b:free", strength |-> "complex"],
       [id |-> "z.ai/glm-4.5-air:free", strength |-> "multilingual"] >>

ModelIds == {Models[i].id : i \in 1..Len(Models)}

\* the task types requested: the two ThreeTierRouter asks for, none at all,
\* and one no model has as its strength
TaskTypes == {"reasoning", "general", "", "vision"}

\* current_index is only ever read modulo the number of candidates, which is
\* 1..7: the index is kept modulo the least common multiple of those
IndexPeriod == 3 * 4 * 5 * 7

\* candidates = [m for m in self.models if m["id"] not in self.rate_limited]
NotLimited_All(limited) == Models

NotLimited(limited) == SelectSeq(Models, LAMBDA m : m.id \notin limited)

\* every model is rate limited: get_next_model waits and clears the set
AllLimited(limited) == NotLimited(limited) = <<>>

\* self.rate_limited when get_next_model returns
LimitedAfter(limited) == IF AllLimited(limited) THEN {} ELSE limited

\* the list get_next_model picks from: the models not rate limited (all of
\* them after a reset), narrowed to those of the task's strength if any
Candidates(limited, task_type) ==
    LET avail == IF AllLimited(limited) THEN Models ELSE NotLimited(limited)
        preferred == SelectSeq(avail, LAMBDA m : m.strength = task_type)
    IN  IF task_type # "" /\ preferred # <<>> THEN preferred ELSE avail

\* model = candidates[self.current_index % len(candidates)]
Pick_First(candidates, index) == candidates[1]

Pick(candidates, index) == candidates[(index % Len(candidates)) + 1]

\* the last n elements of a list
LastN(list, n) ==
    IF Len(list) <= n THEN list ELSE SubSeq(list, Len(list) - n + 1, Len(list))

\* what get_next_model(task_type) leaves behind: the rotator, the record of
\* the call and the run of consecutive like calls
RotatorAfter(task_type) ==
    [rot |-> [current_index |-> (rot.current_index + 1) % IndexPeriod,
              rate_limited |-> LimitedAfter(rot.rate_limited)],
     lastcall |-> [task_type |-> task_type,
                   index |-> rot.current_index,
                   model |-> Pick(Candidates(rot.rate_limited, task_type),
                                  rot.current_index).id],
     run |-> LET cands == Candidates(rot.rate_limited, task_type)
                 goes_on == /\ lastcall.task_type = task_type
                            /\ run.limited = rot.rate_limited
                 before == IF goes_on THEN run.returned ELSE <<>>
             IN  [limited |-> LimitedAfter(rot.rate_limited),
                  returned |-> LastN(Append(before,
                                            Pick(cands, rot.current_index).id),
                                     Len(cands))]]

InitRotator ==
    /\ RouterIdle
    /\ BreakerIdle
    /\ RetryIdle
    /\ OrchIdle
    /\ SourceIdle
    /\ BusIdle
    /\ SseIdle
    /\ BatchIdle
    /\ CouncilIdle

\* get_next_model(task_type)
GetNextModel(task_type) ==
    /\ LET after == RotatorAfter(task_type)
       IN  /\ rot' = after.rot
           /\ lastcall' = after.lastcall
           /\ run' = after.run
    /\ UNCHANGED <<cl, ctrace, other_than_router>>

\* mark_rate_limited(model_id), called as client.py calls it: with a model id
\* get_next_model returned
MarkRateLimited(model_id) ==
    /\ model_id = lastcall.model
    /\ rot' = [rot EXCEPT !.rate_limited = @ \cup {model_id}]
    /\ UNCHANGED <<lastcall, run, cl, ctrace, other_than_router>>

NextRotator ==
    \/ \E t \in TaskTypes : rot.current_index < MaxIndex /\ GetNextModel(t)
    \/ \E m \in ModelIds : MarkRateLimited(m)

SpecRotator == InitRotator /\ [][NextRotator]_vars

\* ------------------------------------------------ OpenRouterClient.complete

\* the HTTP status the completion service has for a request
Statuses == {200, 429, 500}

\* client.py, lines 82-85: the arguments complete passes to breaker.call
CompleteArguments ==
    <<"self._execute_with_backoff", "prompt", "model_id", "max_tokens">>

\* CircuitBreaker.call takes fn alone: the call expression of complete raises
\* TypeError before any of call runs
CompleteCallBinds == Len(CompleteArguments) <= Len(CallParameters)

\* the except clauses of complete: (RateLimitError, CircuitOpenError) and
\* APIError; anything else leaves complete
CaughtByComplete(exc) ==
    exc \in {"RateLimitError", "CircuitOpenError", "APIError"}

InitClient ==
    /\ RouterIdle
    /\ BreakerIdle
    /\ RetryIdle
    /\ OrchIdle
    /\ SourceIdle
    /\ BusIdle
    /\ SseIdle
    /\ BatchIdle
    /\ CouncilIdle

\* complete(prompt, task_type) against a service that has `status` for the
\* model picked: the first turn of the loop takes a model from the rotator,
\* makes its breaker, and the call expression raises TypeError, which neither
\* except clause catches: complete ends with it, without having awaited
\* anything, marked any model or emitted any event
CompleteRaises(p, task_type, status) ==
    /\ cl[p].pc = "none"
    /\ ~CompleteCallBinds
    /\ ~CaughtByComplete("TypeError")
    /\ LET after == RotatorAfter(task_type)
       IN  /\ rot' = after.rot
           /\ lastcall' = after.lastcall
           /\ run' = after.run
           /\ cl' = [cl EXCEPT ![p] =
                        [pc |-> "raised", task_type |-> task_type,
                         attempt |-> 0, model |-> after.lastcall.model,
                         status |-> status, exc |-> "TypeError"]]
    /\ UNCHANGED <<ctrace, other_than_router>>

NextClient ==
    \E p \in Completers, t \in TaskTypes, status \in Statuses :
       CompleteRaises(p, t, status)

SpecClient == InitClient /\ [][NextClient]_vars

\* the rate_limited sets an unending sequence of calls starts from
LimitedAtStart ==
    {{}, {"deepseek/deepseek-r1-0528:free"},
     {"meta-llama/llama-3.3-70b-instruct:free", "nous/hermes-3-405b:free"}}

InitRotatorFair ==
    /\ \E limited \in LimitedAtStart :
          rot = [current_index |-> 0, rate_limited |-> limited]
    /\ lastcall = NoCall
    /\ run = NoRun
    /\ cl = [p \in Completers |-> NoComplete]
    /\ ctrace = <<>>
    /\ BreakerIdle
    /\ RetryIdle
    /\ OrchIdle
    /\ SourceIdle
    /\ BusIdle
    /\ SseIdle
    /\ BatchIdle
    /\ CouncilIdle

NextRotatorFair == \E t \in TaskTypes : GetNextModel(t)

\* get_next_model is called again and again, with no mark_rate_limited in
\* between
SpecRotatorFair ==
    InitRotatorFair /\ [][NextRotatorFair]_vars /\ WF_vars(NextRotatorFair)

\* ================================================================ claims

\* C1: starting from CLOSED, the breaker moves to OPEN exactly when a failure
\* is recorded and the number of failures recorded (since the breaker became
\* CLOSED) that are at most failure_window old, this one included, is
\* >= failure_threshold; older failures never count.  `recorded` keeps every
\* failure time unpruned, so the count is made independently of the code's
\* pruned list.
C1_OpensExactlyAtThreshold ==
    [][ cb.state = CLOSED =>
          /\ (last'.op = "call_failed") =>
                ((cb'.state = OPEN) <=>
                 (RecentFailures(recorded', now) >= cfg.failure_threshold))
          /\ (cb'.state = OPEN) => (last'.op = "call_failed") ]_vars

\* C1 witness: a failure opened the breaker from CLOSED while an older failure,
\* outside the window, was on record and did not count
C1_Witness ==
    /\ last.op = "call_failed" /\ last.prev = CLOSED /\ cb.state = OPEN
    /\ RecentFailures(recorded, now) = cfg.failure_threshold
    /\ Len(recorded) > cfg.failure_threshold

\* C2: while OPEN with now - opened_at < timeout, every call() raises
\* CircuitOpenError without awaiting fn, and leaves state, opened_at and the
\* recorded failures unchanged
C2_OpenRejectsCalls ==
    [][ (cb.state = OPEN /\ now - cb.opened_at < cfg.timeout_seconds
           /\ last'.op = "call") =>
          /\ last'.outcome = "CircuitOpenError"
          /\ pc' = pc
          /\ cb'.state = OPEN
          /\ cb'.opened_at = cb.opened_at
          /\ cb'.failure_timestamps = cb.failure_timestamps
          /\ cb'.failure_count = cb.failure_count ]_vars

\* C2 witness: a call was rejected by an OPEN breaker that stayed OPEN
C2_Witness ==
    /\ last.op = "call" /\ last.outcome = "CircuitOpenError"
    /\ last.prev = OPEN /\ cb.state = OPEN
    /\ now - cb.opened_at < cfg.timeout_seconds

\* C3 (as claimed): every OPEN -> HALF_OPEN transition resets the half-open
\* counter to 0, so that a call making the transition is admitted as the
\* first probe (counter 1)
C3_CounterResetOnHalfOpen ==
    [][ (cb.state = OPEN /\ cb'.state = HALF_OPEN) =>
          IF last'.op = "call"
          THEN cb'.half_open_calls = 1 /\ last'.outcome = "admitted"
          ELSE cb'.half_open_calls = 0 ]_vars

C6_LeavesOpenOnlyAfterTimeout ==
    [][ (cb.state = OPEN /\ cb'.state # OPEN) =>
          \/ /\ cb'.state = HALF_OPEN
             /\ last'.op \in {"read_state", "call"}
             /\ now - cb.opened_at >= cfg.timeout_seconds
          \/ /\ cb'.state = CLOSED
             /\ last'.op = "reset" ]_vars

\* C6 witness: a read of state moved the breaker from OPEN to HALF_OPEN
C6_Witness ==
    /\ last.op = "read_state" /\ last.prev = OPEN /\ cb.state = HALF_OPEN
    /\ now - cb.opened_at >= cfg.timeout_seconds

\* C7: in one HALF_OPEN episode at most half_open_max_calls calls are admitted
\* to await fn; a call made when that many were admitted raises
\* CircuitOpenError without awaiting fn
C7_ProbeLimit ==
    [][ /\ probes_admitted' <= cfg.half_open_max_calls
        /\ (cb.state = HALF_OPEN /\ last'.op = "call"
              /\ probes_admitted >= cfg.half_open_max_calls) =>
             /\ last'.outcome = "CircuitOpenError"
             /\ pc' = pc ]_vars

\* C7 witness: half_open_max_calls probes were admitted and a further call
\* was rejected by the HALF_OPEN breaker
C7_Witness ==
    /\ last.op = "call" /\ last.outcome = "CircuitOpenError"
    /\ last.prev = HALF_OPEN /\ cb.state = HALF_OPEN
    /\ probes_admitted = cfg.half_open_max_calls

\* C8 (as claimed): the breaker moves from HALF_OPEN to CLOSED only on the
\* success of a call admitted as a HALF_OPEN probe (or through reset()); the
\* success of a call admitted while CLOSED never closes it
C8_OnlyProbeSuccessCloses ==
    [][ (cb.state = HALF_OPEN /\ cb'.state = CLOSED) =>
          \/ last'.op = "reset"
          \/ last'.op = "call_succeeded" /\ last'.outcome = "probe" ]_vars

\* C9 (as claimed): after reset() the state is CLOSED and the failure
\* timestamps, failure count and half-open counter are empty/zero
C9_ResetClears ==
    last.op = "reset" =>
        /\ cb.state = CLOSED
        /\ cb.failure_timestamps = <<>>
        /\ cb.failure_count = 0
        /\ cb.half_open_calls = 0

\* C10: a RateLimitError is re-raised exactly when it is the
\* rate_limit_max_attempts-th rate-limit failure of the run, any other
\* retryable error exactly when it is the max_attempts-th such failure,
\* whatever the number of failures of the other class; the failures are
\* counted in the history of fn's outcomes, not in the run's own counters
C10_IndependentBudgets ==
    LET rl == Count(hist, "RateLimitError")
        api == Count(hist, "APIError")
    IN  /\ (rt.pc = "raised" /\ rt.raised = "RateLimitError") =>
              rl = rcfg.rate_limit_max_attempts
        /\ (rt.pc = "raised" /\ rt.raised = "APIError") =>
              api = rcfg.max_attempts
        /\ (rt.pc \in {"sleeping", "awaiting_fn"}) =>
              (rl < rcfg.rate_limit_max_attempts /\ api < rcfg.max_attempts)

\* C10 witness: a RateLimitError was re-raised as the last of its budget after
\* failures of the other class had occurred in between
C10_Witness ==
    /\ rt.pc = "raised" /\ rt.raised = "RateLimitError"
    /\ rcfg.rate_limit_max_attempts >= 2
    /\ Count(hist, "APIError") >= 1
    /\ hist[1] = "RateLimitError"

\* C11 (as claimed): whatever the jitter setting, the delay slept after a
\* RateLimitError that carries retry_after_seconds is at least
\* retry_after_seconds (rt.delay counts half seconds)
C11_SleepAtLeastRetryAfter ==
    (rt.pc = "sleeping" /\ hist[Len(hist)] = "RateLimitError"
        /\ rt.retry_after > 0) =>
        rt.delay >= 2 * rt.retry_after

\* positions in the trace of the events of one type emitted for one source
\* ("orchestrator" for the orchestrator's own events)
EventsAt(event_type, source, status) ==
    {i \in 1..Len(trace) : /\ trace[i].kind = "emit"
                           /\ trace[i].event_type = event_type
                           /\ trace[i].source = source
                           /\ trace[i].status = status}

\* positions in the trace of the cache operations of one kind
CacheOpsAt(kind) == {i \in 1..Len(trace) : trace[i].kind = kind}

\* a hit returned by source s is in the list: a hit without URL as it came, a
\* hit with URL through a source of that URL scoring at least as much
Represented(hit, s, sources) ==
    \E j \in 1..Len(sources) :
        IF hit.url = NoUrl
        THEN /\ sources[j].url = NoUrl /\ sources[j].source_name = s
             /\ sources[j].relevance_score = hit.relevance_score
        ELSE /\ sources[j].url = hit.url
             /\ sources[j].relevance_score >= hit.relevance_score

\* the relevance scores of all candidates for a URL: the hits returned by the
\* searches and the pages scraped
CandidateScores(url) ==
    {sc \in Scores : \E s \in Sources : \E i \in 1..Len(search[s].hits) :
        /\ search[s].st = "returned"
        /\ search[s].hits[i].url = url
        /\ search[s].hits[i].relevance_score = sc}
    \cup {sc \in {FIRECRAWL_RELEVANCE_SCORE} : \E k \in 1..Len(scrape) :
        scrape[k].st = "returned" /\ scrape[k].url = url}

RECURSIVE SumCosts(_)
SumCosts(sources) ==
    IF sources = <<>> THEN 0 ELSE Head(sources).cost_usd + SumCosts(Tail(sources))

\* C12: in STANDARD depth a search that raises leaves the other search as it
\* is and does not make gather_intel raise; once the gathering is over both
\* searches started have ended, every hit of a search that returned is in the
\* result and nothing in the result comes from a search that raised (so the
\* result is empty when both raised)
C12_StandardIsolatesFailures ==
    [][ oq.depth = STANDARD =>
          /\ \A s \in Sources, t \in Sources :
                (s # t /\ search[s].st = "running" /\ search'[s].st = "raised") =>
                    search'[t] = search[t]
          /\ oraised' = "none" /\ opc' # "raised"
          /\ (opc' \in {"finalize", "returned"} /\ ~result'.cached) =>
                /\ \A s \in Dispatched(oq) : search'[s].st \in {"returned", "raised"}
                /\ \A s \in Sources : search'[s].st = "returned" =>
                      \A i \in 1..Len(search'[s].hits) :
                          Represented(search'[s].hits[i], s, result'.sources)
                /\ \A j \in 1..Len(result'.sources) :
                      /\ result'.sources[j].source_name \in Sources
                      /\ search'[result'.sources[j].source_name].st = "returned" ]_vars

\* C12 witness: both searches were in flight together, the neural search
\* raised while the news search was running, and the call returned the hits
\* of the news search
C12_Witness ==
    /\ oq.depth = STANDARD /\ opc = "returned" /\ ~result.cached
    /\ search["exa"].st = "raised" /\ search["tavily"].st = "returned"
    /\ result.sources # <<>>
    /\ \E b \in EventsAt("source_querying", "tavily", "started"),
          f \in EventsAt("SourceQueried", "exa", "failed"),
          c \in EventsAt("SourceQueried", "tavily", "completed") :
          b < f /\ f < c

\* C13: in STANDARD depth a search source that is rate-limited when the query
\* is dispatched is never called; with both rate-limited the call does not
\* raise and a result that does not come from the cache has no sources and
\* total_cost_usd = 0
C13_RateLimitedNotCalled ==
    oq.depth = STANDARD =>
        /\ oq.exa_rate_limited =>
              ("exa" \notin called /\ search["exa"].st = "idle")
        /\ oq.tavily_rate_limited =>
              ("tavily" \notin called /\ search["tavily"].st = "idle")
        /\ (oq.exa_rate_limited /\ oq.tavily_rate_limited) =>
              /\ oraised = "none"
              /\ called = {}
              /\ (opc = "returned" /\ ~result.cached) =>
                    (result.sources = <<>> /\ result.total_cost_usd = 0)

\* C13 witness: a STANDARD query with both sources rate-limited missed the
\* cache and completed
C13_Witness ==
    /\ oq.depth = STANDARD /\ oq.exa_rate_limited /\ oq.tavily_rate_limited
    /\ opc = "returned" /\ ~result.cached
    /\ EventsAt("query_completed", "orchestrator", "success") # {}

\* C14 (as claimed): when a search or a scrape of a STANDARD or DEEP query
\* raises CircuitOpenError, gather_intel does not raise, and the result it
\* returns holds the hits of the searches that returned
C14_CircuitOpenTolerated ==
    (/\ oq.depth \in {STANDARD, DEEP}
     /\ \/ \E s \in Sources : search[s].error = "CircuitOpenError"
        \/ \E i \in 1..Len(scrape) : scrape[i].error = "CircuitOpenError") =>
        /\ oraised = "none" /\ opc # "raised"
        /\ opc = "returned" =>
              \A s \in Sources : search[s].st = "returned" =>
                  \A i \in 1..Len(search[s].hits) :
                      Represented(search[s].hits[i], s, result.sources)

\* C15: when cache.get finds and reads the entry under the key, gather_intel
\* returns that entry with cached = true, no source is invoked, the cache is
\* not written, and the only events after query_started are IntelGathered
\* (cached) and then query_completed with cached = true and cost = 0
C15_CacheHit ==
    [][ (/\ opc = "cache_get" /\ store # NoEntry
         /\ trace'[Len(trace) + 1].status # "failed") =>
          /\ opc' = "returned" /\ oraised' = "none"
          /\ result'.cached
          /\ [result' EXCEPT !.cached = FALSE] = store
          /\ store' = store
          /\ called' = {}
          /\ \A s \in Sources : search'[s].st = "idle"
          /\ scrape' = <<>>
          /\ {i \in 1..Len(trace') : trace'[i].kind = "cache_set"} = {}
          /\ Len(trace') = Len(trace) + 3
          /\ LET g == trace'[Len(trace) + 2]
                 c == trace'[Len(trace) + 3]
             IN  /\ g.kind = "emit" /\ g.event_type = "IntelGathered"
                 /\ g.cached = "True"
                 /\ c.kind = "emit" /\ c.event_type = "query_completed"
                 /\ c.cached = "True" /\ c.cost = 0 ]_vars

\* C15 witness: a call returned the cached entry, whose own cost is not zero
C15_Witness ==
    /\ opc = "returned" /\ result.cached
    /\ result.total_cost_usd > 0
    /\ store # NoEntry
    /\ Len(trace) = 4

\* C16 (as claimed): in a result returned at any depth no URL occurs in two
\* sources, and the source kept for a URL scores at least as much as every
\* candidate with that URL
C16_UrlsUniqueAndBest ==
    opc = "returned" =>
        LET srcs == result.sources
        IN  /\ \A i \in 1..Len(srcs), j \in 1..Len(srcs) :
                  (i < j /\ srcs[i].url # NoUrl) => srcs[i].url # srcs[j].url
            /\ ~result.cached =>
                  \A i \in 1..Len(srcs) : srcs[i].url # NoUrl =>
                      \A sc \in CandidateScores(srcs[i].url) :
                          srcs[i].relevance_score >= sc

\* C17 (as claimed): in a result returned, no source without URL precedes a
\* source with URL, and the sources with URL are in non-increasing
\* relevance_score order
C17_UrlBearingFirstAndSorted ==
    opc = "returned" =>
        LET srcs == result.sources
        IN  \A i \in 1..Len(srcs), j \in 1..Len(srcs) :
                (i < j /\ srcs[j].url # NoUrl) =>
                    /\ srcs[i].url # NoUrl
                    /\ srcs[i].relevance_score >= srcs[j].relevance_score

\* C18 (as claimed): in a result returned, total_cost_usd is the sum of the
\* cost_usd of its sources
C18_CostIsSumOfSources ==
    opc = "returned" => result.total_cost_usd = SumCosts(result.sources)

\* C19: the first entry of the trace is query_started, emitted once; neither
\* IntelGathered nor query_completed is emitted before the end; when the call
\* has returned the last two entries are IntelGathered and query_completed, in
\* that order and once each, so that every source event and the cache write
\* come before them, the cache having been written when the orchestrator has
\* one and the result is not a cached one
C19_EventOrder ==
    LET gathered == {i \in 1..Len(trace) : trace[i].event_type = "IntelGathered"}
        completed == {i \in 1..Len(trace) : trace[i].event_type = "query_completed"}
        started == {i \in 1..Len(trace) : trace[i].event_type = "query_started"}
    IN  /\ trace # <<>> => (started = {1} /\ trace[1].kind = "emit")
        /\ opc # "returned" => (gathered = {} /\ completed = {})
        /\ opc = "returned" =>
              /\ gathered = {Len(trace) - 1}
              /\ completed = {Len(trace)}
              /\ (oq.has_cache /\ ~result.cached) => CacheOpsAt("cache_set") # {}

\* C19 witness: a call that missed the cache returned after source events and
\* a cache write
C19_Witness ==
    /\ opc = "returned" /\ ~result.cached /\ oq.has_cache
    /\ EventsAt("SourceQueried", "exa", "completed") # {}
    /\ EventsAt("SourceQueried", "firecrawl", "completed") # {}
    /\ CacheOpsAt("cache_set") # {}

\* C20: when the neural search of a SHALLOW or DEEP query has raised, the call
\* builds no result, emits neither IntelGathered nor query_completed and
\* writes nothing to the cache; it ends raising that same exception after
\* emitting error_occurred, once, with the query_id
C20_ErrorPath ==
    (oq.depth \in {SHALLOW, DEEP} /\ search["exa"].st = "raised") =>
        /\ opc \in {"awaiting_search", "raised"}
        /\ result = NoResult
        /\ \A i \in 1..Len(trace) :
              /\ trace[i].event_type \notin {"IntelGathered", "query_completed"}
              /\ trace[i].kind # "cache_set"
        /\ opc = "raised" =>
              /\ oraised = search["exa"].error
              /\ EventsAt("error_occurred", "orchestrator", "absent") = {Len(trace)}
              /\ trace[Len(trace)].query_id = "q1"

\* C20 witness: a DEEP query of an orchestrator with a cache ended raising
\* the APIError of the neural search
C20_Witness ==
    /\ oq.depth = DEEP /\ oq.has_cache /\ opc = "raised"
    /\ search["exa"].error = "APIError" /\ oraised = "APIError"

\* C21: with failure_threshold 3 and a failure window of 60 s, in front of a
\* service that answers every request with HTTP 500, once three searches
\* have ended (all within the same second, so within the window and before
\* the timeout) the breaker of the source is OPEN, and a search begun after
\* them ends raising CircuitOpenError without any HTTP request having been
\* made since it began
C21_OpensAfterThree500 ==
    (sv.status = 500 /\ now = 0) =>
        /\ ended >= cfg.failure_threshold => cb.state = OPEN
        /\ \A k \in Searchers :
              (sq[k].pc = "raised" /\ sq[k].began_after >= cfg.failure_threshold) =>
                  /\ sq[k].exc = "CircuitOpenError"
                  /\ http_requests = sq[k].requests_before

\* C22: after a search against a service that answers every request with
\* HTTP 429 has failed, is_rate_limited is true at every time before the time
\* of the failure plus max(retry_after, 60 s); and is_rate_limited is false
\* once the clock has reached rate_limited_until
C22_RateLimitedWindow ==
    /\ \A k \in Searchers :
          (sv.status = 429 /\ sq[k].pc = "raised") =>
              (now < sq[k].failed_at + Max(sv.retry_after, 60) => IsRateLimited(now))
    /\ now >= rate_limited_until => ~IsRateLimited(now)

\* the envelopes a consumer has been handed or will be, in the order it
\* receives them
Receives(k) == received[k] \o bq[k].items

\* position of an emit in the order of emission
EmittedAt(e) == CHOOSE i \in 1..Len(order) : order[i] = e

\* C23: no handler failure ever leaves emit; an emit that has returned,
\* during which the handler list of its type did not change, has invoked
\* the handlers subscribed to its event type, in subscription order, whether
\* or not some of them raised; and an emit that has returned has offered its
\* envelope to every streaming queue, so that every consumer whose queue had
\* room receives it
C23_HandlersIsolated ==
    \A e \in Emitters :
        /\ em[e].pc # "raised"
        /\ (em[e].pc = "returned" /\ ~em[e].changed) =>
              em[e].invoked = em[e].at_start
        /\ em[e].pc = "returned" =>
              /\ em[e].offered = Range(sse_queues)
              /\ \A k \in em[e].offered \ em[e].dropped : e \in Range(Receives(k))

\* C23 witness: the first of two handlers raised, the second was invoked all
\* the same, and the emit returned after delivering to a streaming queue
C23_Witness ==
    /\ em["e1"].pc = "returned" /\ ~em["e1"].changed
    /\ em["e1"].logged = {1}
    /\ em["e1"].invoked = <<"h1", "h2">>
    /\ "e1" \in Range(Receives("s2"))

\* C24: an emit that has returned has invoked exactly the handlers that were
\* subscribed to its event type when it started, each once, whatever was
\* subscribed or unsubscribed while it was dispatching
C24_DispatchListSnapshotted ==
    \A e \in Emitters :
        em[e].pc = "returned" =>
            /\ Range(em[e].invoked) = Range(em[e].at_start)
            /\ Len(em[e].invoked) = Len(em[e].at_start)

\* C25: every consumer receives the envelopes in the order of their emission:
\* of two envelopes it receives, the one emitted first comes first
C25_EmissionOrder ==
    \A k \in Consumers :
        \A i, j \in 1..Len(Receives(k)) :
            i < j => EmittedAt(Receives(k)[i]) < EmittedAt(Receives(k)[j])

\* C26: no queue of a stream subscription ever holds more than 256
\* envelopes; the step that ends the handler loop of an emit also ends the
\* emit (it waits for no queue), leaves every full queue as it is, and
\* appends the envelope to every other queue
C26_BoundedQueues ==
    [][/\ \A k \in Consumers : QSize(bq[k]) <= 256 /\ QSize(bq'[k]) <= 256
       /\ \A e \in Emitters :
             /\ em'[e].pc # "delivering"
             /\ (em[e].pc # "returned" /\ em'[e].pc = "returned") =>
                   \A k \in Range(sse_queues) :
                       bq'[k] = IF QSize(bq[k]) >= 256 THEN bq[k]
                                ELSE [bq[k] EXCEPT !.items = Append(@, e)]]_vars

\* C26 witness: an emit found the queue of the first consumer full, dropped
\* the envelope for it and delivered it to the second consumer
C26_Witness ==
    /\ em["e2"].pc = "returned" /\ em["e2"].dropped = {"s1"}
    /\ QSize(bq["s1"]) = 256
    /\ "e2" \in Range(Receives("s2"))

\* C27: once a session has ended, every emit still delivers its envelope to
\* the stream subscription of every other session that is live and whose
\* forwarder is waiting for envelopes
C27_OtherSessionsKeepReceiving ==
    [][\A e \in Emitters :
          (em[e].pc = "idle" /\ em'[e].pc = "returned") =>
              \A s \in Consumers :
                  ( /\ sess[s].pc = "streaming" /\ sess[s].fwd = "waiting"
                    /\ \E o \in Consumers \ {s} : sess[o].pc = "ended" ) =>
                       e \in Range(bq'[s].items)]_vars

\* C28: whichever way a session has left subscribe, cancel() was called on
\* its forwarder and on its heartbeat task (the forwarder is cancelled, about
\* to be woken with CancelledError, or has ended on it), the session has no
\* entry in the queue map of the emitter, and the queue of its stream
\* subscription is not among the queues of the bus
C28_CleanupOnEveryExit ==
    \A s \in Consumers :
        sess[s].pc = "ended" =>
            /\ sess[s].fwd \in {"cancelled", "cancelling", "finished"}
            /\ sess[s].hb = "cancelled"
            /\ s \notin emap
            /\ s \notin Range(sse_queues)

\* C28 witness: one session was cancelled while its forwarder was waiting
\* for envelopes, the other was closed before its forwarder ever ran
C28_Witness ==
    /\ sess["s1"].pc = "ended" /\ sess["s1"].how = "cancelled"
    /\ sess["s1"].fwd = "finished"
    /\ sess["s2"].pc = "ended" /\ sess["s2"].how = "closed"
    /\ sess["s2"].fwd = "cancelled"

\* C29: a step that changes the state of the breaker puts exactly one
\* CircuitBreakerStateChanged event on the bus, which carries the service
\* name, the state before the step and the state after it; a step that leaves
\* the state unchanged puts none.  The bus hands an envelope to the handlers
\* subscribed to its event_type, so that the subscribers of
\* CircuitBreakerStateChanged receive the event exactly when it has that type.
C29_OneEventPerTransition ==
    [][/\ cb'.state # cb.state =>
             /\ Len(cb'.emitted) = 1
             /\ cb'.emitted[1].event_type = "CircuitBreakerStateChanged"
             /\ cb'.emitted[1].source_name = service_name
             /\ cb'.emitted[1].previous_state = cb.state
             /\ cb'.emitted[1].state = cb'.state
       /\ cb'.state = cb.state => cb'.emitted = <<>>]_vars

\* the correlation_id of the request on whose behalf a caller runs
\* CircuitBreaker.call
CorrelationOf(c) == IF c = "c1" THEN "trace-q1" ELSE "trace-q2"

\* C30: every event emitted by the orchestrator or by a source client carries
\* the correlation_id of the query, and every state-change event the breaker
\* schedules during a step of a caller's call carries the correlation_id of
\* that caller's request
C30_CorrelationIdCarried ==
    [][/\ \A i \in 1..Len(trace') :
             trace'[i].kind = "emit" => trace'[i].correlation_id = correlation_id
       /\ \A c \in Callers :
             pc'[c] # pc[c] =>
                \A i \in 1..Len(cb'.emitted) :
                   cb'.emitted[i].correlation_id = CorrelationOf(c)]_vars

\* C31: at no time are more scrapes started through batch_scrape of one
\* FirecrawlSource in flight than max_concurrent, also when two batch_scrape
\* calls overlap; the permits taken are exactly the scrapes in flight.
C31_AtMostMaxConcurrent ==
    /\ InFlight <= sem.max_concurrent
    /\ sem.value = sem.max_concurrent - InFlight

\* C31 witness: both calls are gathering, the default limit is reached and a task of
\* each call is in flight while another task waits for a permit
C31_Witness ==
    /\ sem.max_concurrent = MAX_CONCURRENT_SCRAPES
    /\ InFlight = sem.max_concurrent
    /\ \A b \in Batches :
          /\ bt[b].pc = "gathering"
          /\ \E i \in 1..Len(bt[b].tasks) : bt[b].tasks[i].st = "scraping"
    /\ \E b \in Batches : \E i \in 1..Len(bt[b].tasks) :
          bt[b].tasks[i].st = "created"

\* the pages a finished batch_scrape has to return: those of the URLs whose
\* scrape returned, in the order of the input list
Succeeded(b) ==
    LET ok == SelectSeq([i \in 1..Len(bt[b].tasks) |-> i],
                        LAMBDA i : bt[b].tasks[i].st = "returned")
    IN  [k \in 1..Len(ok) |-> Page(bt[b].tasks[ok[k]].url)]

\* C32: batch_scrape never raises because of a failing URL; when it returns,
\* every URL of the batch has been scraped (its scrape returned or raised) and
\* the list returned holds exactly the pages of the scrapes that returned, in
\* input order; a failing scrape gives its permit back.
C32_FailuresSkipped ==
    \A b \in Batches :
       /\ bt[b].pc # "raised"
       /\ \A i \in 1..Len(bt[b].tasks) : bt[b].tasks[i].st # "raised"
       /\ bt[b].pc = "returned" =>
             /\ \A i \in 1..Len(bt[b].tasks) :
                   bt[b].tasks[i].st \in {"returned", "none_returned"}
             /\ bt[b].results = Succeeded(b)

\* C32 witness: a call returned two pages although the scrape of the URL
\* between them failed
C32_Witness ==
    \E b \in Batches :
       /\ bt[b].pc = "returned"
       /\ Len(bt[b].tasks) = 3
       /\ bt[b].tasks[1].st = "returned"
       /\ bt[b].tasks[2].st = "none_returned"
       /\ bt[b].tasks[3].st = "returned"
       /\ bt[b].results = <<Page("u1"), Page("u3")>>

\* C33: search_keyword and search_semantic never raise: on any error, a
\* failure of the embedder inside search_semantic included, the call returns
\* an empty sequence.
C33_SearchErrorsReturnEmpty ==
    \A c \in CouncilCalls :
       /\ cs[c].pc # "raised"
       /\ (cs[c].pc = "returned" /\ cs[c].exc # "none") => cs[c].result = <<>>

\* the strength of the model with the given id
StrengthOf(id) ==
    Models[CHOOSE i \in 1..Len(Models) : Models[i].id = id].strength

\* C34: the model id a get_next_model call returns is not in the rate-limited
\* set as it is when the call returns, and whenever a model that is not
\* excluded then has the requested task type as its strength, the returned
\* model has that strength.
C34_NeverExcludedAndPreferred ==
    [][ lastcall'.index # lastcall.index =>
          /\ lastcall'.model \in ModelIds \ rot'.rate_limited
          /\ (\E i \in 1..Len(Models) :
                 /\ Models[i].id \notin rot'.rate_limited
                 /\ Models[i].strength = lastcall'.task_type)
             => StrengthOf(lastcall'.model) = lastcall'.task_type ]_vars

\* C34 witness: with the first reasoning model rate limited, a call for
\* reasoning returned the other one, at an index that would have picked the
\* excluded model from the full list of reasoning models
C34_Witness ==
    /\ rot.rate_limited = {"deepseek/deepseek-r1-0528:free"}
    /\ lastcall.task_type = "reasoning"
    /\ lastcall.index % 2 = 0
    /\ lastcall.model = "openai/gpt-oss-120b:free"

\* C35: each get_next_model call leaves the index one above the value it
\* read, and any k consecutive calls with one task type and an unchanged
\* rate-limited set, k being the number of eligible models, return each
\* eligible model exactly once.
C35_RoundRobin ==
    /\ lastcall # NoCall => rot.current_index = lastcall.index + 1
    /\ LET eligible == Candidates(run.limited, lastcall.task_type)
       IN  Len(run.returned) = Len(eligible) =>
              {run.returned[j] : j \in 1..Len(run.returned)}
                 = {eligible[j].id : j \in 1..Len(eligible)}

\* C35 witness: six consecutive calls without a usable task type, made while
\* one model was rate limited, returned the six other models, the window
\* starting in the middle of the list
C35_Witness ==
    /\ Cardinality(run.limited) = 1
    /\ lastcall.task_type \in {"", "vision"}
    /\ Len(run.returned) = Len(Models) - 1
    /\ run.returned[1] # Candidates(run.limited, "")[1].id

\* the events complete emitted about a model, oldest first
EventsAbout(m) ==
    SelectSeq(ctrace, LAMBDA e : e.model = m)

\* C36: when an attempt of complete on model m meets a rate-limited service
\* (the request on m is answered 429, so that the attempt fails with
\* RateLimitError), m is in the rotator's rate-limited set afterwards,
\* RateLimitHit and then ModelRotated have been emitted for m, and complete
\* has gone on to a further attempt.
C36_RotatesOnRateLimit ==
    \A p \in Completers :
       (cl[p].pc # "none" /\ cl[p].status = 429) =>
          /\ cl[p].model \in rot.rate_limited
          /\ \E i \in 1..Len(EventsAbout(cl[p].model)) - 1 :
                /\ EventsAbout(cl[p].model)[i].event_type = "RateLimitHit"
                /\ EventsAbout(cl[p].model)[i + 1].event_type = "ModelRotated"
          /\ cl[p].attempt >= 1

\* C40: in an unending sequence of get_next_model calls over an unchanged
\* rate-limited set, every model eligible for a task type that is requested
\* again and again is returned for it again and again, whatever calls for
\* other task types come in between.
C40_FairPerTaskType ==
    \A t \in TaskTypes : \A i \in 1..Len(Models) :
       []<>(lastcall.task_type = t) =>
          []<>(\/ \A j \in 1..Len(Candidates(rot.rate_limited, t)) :
                     Candidates(rot.rate_limited, t)[j] # Models[i]
               \/ lastcall.task_type = t /\ lastcall.model = Models[i].id)

\* a step in which a call admitted by the breaker does not succeed
CallEndsBadly == \E c \in Callers : CallFails(c) \/ CallCancelled(c)

InvocationBudget == rcfg.max_attempts + rcfg.rate_limit_max_attempts - 1

\* C38: a retry_with_backoff run over an fn that terminates comes to an end;
\* fn is invoked at most max_attempts + rate_limit_max_attempts - 1 times in
\* it, however rate-limit and other retryable failures interleave; a run that
\* returned did so on fn's result and a run that raised did so with the last
\* exception fn raised.
C38_TerminatesWithinBudget ==
    /\ [](/\ Len(hist) <= InvocationBudget
          /\ rt.total_attempt <= InvocationBudget
          /\ rt.pc = "returned" => (hist # <<>> /\ hist[Len(hist)] = "ok")
          /\ rt.pc = "raised" =>
                (hist # <<>> /\ hist[Len(hist)] = rt.raised /\ rt.raised # "ok"))
    /\ <>(rt.pc \in {"returned", "raised"})

\* C38 witness: a run used its whole budget of invocations, both classes of
\* failure alternating, and ended with the exception of the last invocation
C38_Witness ==
    /\ rcfg.max_attempts >= 2
    /\ rcfg.rate_limit_max_attempts >= 2
    /\ rt.pc = "raised"
    /\ Len(hist) = InvocationBudget
    /\ hist[1] = "RateLimitError"
    /\ hist[2] = "APIError"
    /\ rt.raised = hist[Len(hist)]

\* C39: an envelope emitted once a session has been handed its connected
\* message reaches the stream subscription of that session, as long as no
\* session has been torn down and the queue has room: there is no time after
\* connected at which the session is not yet registered with the bus.
C39_NoWindowAfterConnected ==
    [][\A e \in Emitters :
          (em[e].pc = "idle" /\ em'[e].pc = "returned") =>
              \A s \in Consumers :
                  ( /\ sess[s].pc = "streaming"
                    /\ sess[s].out # <<>> /\ Head(sess[s].out) = "connected"
                    /\ \A o \in Consumers : sess[o].pc # "ended"
                    /\ ~QueueFull(bq[s], SSE_QUEUE_MAXSIZE) ) =>
                       e \in Range(bq'[s].items)]_vars

=============================================================================
